---- MODULE Spec2Model ----
(***************************************************************************)
(* Storage-layout engine of crates/storage-interop: packing arithmetic,    *)
(* primitive codec, slot handle, byte-string handle and mapping handle,    *)
(* driven against a word-addressed backend.                                *)
(*                                                                         *)
(* A 256-bit word (alloy U256) is modelled by its 32 big-endian bytes,     *)
(* i.e. the value of U256::to_be_bytes::<32>(): index 1 is the most        *)
(* significant byte and index 32 the least significant one.  A Rust        *)
(* integer of n bytes is modelled by its n big-endian bytes                *)
(* (iN::to_be_bytes / uN::to_be_bytes), a bool by a BOOLEAN.               *)
(***************************************************************************)
EXTENDS Integers, Sequences, FiniteSets, TLC

VARIABLES
    handle,   \* the handle under test: [kind, ty, slot, ctx]
    storage,  \* backend contents: slot word -> word (absent slots read as zero)
    pre,      \* backend contents before the last operation
    calls,    \* backend calls issued by the last operation, in order
    last,     \* the last operation: [name, arg, res]
    written   \* what the handle holds as far as its writer knows: [state, val]

vars == <<handle, storage, pre, calls, last, written>>

WordBytes == 32

Byte == 0..255

\* The byte string with the bytes of f, as an explicit tuple.
Tup(f) == SubSeq(f, 1, Len(f))

(***************************************************************************)
(* U256 arithmetic on big-endian byte strings.                             *)
(***************************************************************************)
ZeroWord == Tup([i \in 1..WordBytes |-> 0])

OneWord == Tup([i \in 1..WordBytes |-> IF i = WordBytes THEN 1 ELSE 0])

U256_MAX == Tup([i \in 1..WordBytes |-> 255])

RECURSIVE BitAnd(_, _)
BitAnd(a, b) ==
    IF a = 0 \/ b = 0 THEN 0
    ELSE (a % 2) * (b % 2) + 2 * BitAnd(a \div 2, b \div 2)

AndTable == [a \in Byte |-> [b \in Byte |-> BitAnd(a, b)]]

ByteAnd(a, b) == AndTable[a][b]

ByteOr(a, b) == a + b - AndTable[a][b]

WordAnd(a, b) == Tup([i \in 1..WordBytes |-> ByteAnd(a[i], b[i])])

WordOr(a, b) == Tup([i \in 1..WordBytes |-> ByteOr(a[i], b[i])])

WordNot(a) == Tup([i \in 1..WordBytes |-> 255 - a[i]])

\* w << (8 * k): the byte at index i + k moves up to index i.
ShlBytes(w, k) ==
    Tup([i \in 1..WordBytes |-> IF i + k <= WordBytes THEN w[i + k] ELSE 0])

\* w >> (8 * k): the byte at index i - k moves down to index i.
ShrBytes(w, k) ==
    Tup([i \in 1..WordBytes |-> IF i - k >= 1 THEN w[i - k] ELSE 0])

\* w >> 1
Shr1(w) ==
    Tup([i \in 1..WordBytes |->
        (w[i] \div 2) + (IF i > 1 THEN (w[i - 1] % 2) * 128 ELSE 0)])

\* w - 1, wrapping: the lowest non-zero byte is decremented, the zero bytes
\* below it borrow and become 0xff.
WordSubOne(w) ==
    IF w = ZeroWord THEN U256_MAX
    ELSE LET k == CHOOSE j \in 1..WordBytes :
                     w[j] # 0 /\ \A m \in (j + 1)..WordBytes : w[m] = 0
         IN Tup([i \in 1..WordBytes |->
                IF i < k THEN w[i] ELSE IF i = k THEN w[i] - 1 ELSE 255])

\* The carry into byte i when the small natural n is added to w.
RECURSIVE CarryInto(_, _, _)
CarryInto(w, n, i) ==
    IF i = WordBytes THEN n
    ELSE (w[i + 1] + CarryInto(w, n, i + 1)) \div 256

\* w + U256::from(n), wrapping at 2^256.
WordAddInt(w, n) ==
    Tup([i \in 1..WordBytes |-> (w[i] + CarryInto(w, n, i)) % 256])

\* U256::from(n) for a natural n below 2^24.
WordFromInt(n) ==
    Tup([i \in 1..WordBytes |->
        IF i = WordBytes THEN n % 256
        ELSE IF i = WordBytes - 1 THEN (n \div 256) % 256
        ELSE IF i = WordBytes - 2 THEN (n \div 65536) % 256
        ELSE 0])

\* The number a word denotes, for words below 2^24.
WordLow24(w) ==
    w[WordBytes] + 256 * w[WordBytes - 1] + 65536 * w[WordBytes - 2]

IsSmallWord(w) == \A i \in 1..(WordBytes - 3) : w[i] = 0

(***************************************************************************)
(* Results: Ok(v), Err(kind), or a panic (abort) of the Rust code.         *)
(***************************************************************************)
Ok(v) == [tag |-> "Ok", val |-> v]

Err(kind) == [tag |-> "Err", val |-> kind]

Panic(what) == [tag |-> "Panic", val |-> what]

Unit == <<>>

(***************************************************************************)
(* packing.rs                                                              *)
(***************************************************************************)
create_element_mask(byte_count) ==
    IF byte_count >= 32 THEN U256_MAX
    ELSE WordSubOne(ShlBytes(OneWord, byte_count))

calc_element_slot(idx, elem_bytes) == (idx * elem_bytes) \div 32

\* Mutant: element 0 starts 24 bytes into the word.
calc_element_offset_shifted(idx, elem_bytes) == (idx * elem_bytes + 24) % 32

calc_element_offset(idx, elem_bytes) == (idx * elem_bytes) % 32

calc_element_loc(idx, elem_bytes) ==
    [offset_slots |-> calc_element_slot(idx, elem_bytes),
     offset_bytes |-> calc_element_offset(idx, elem_bytes),
     size |-> elem_bytes]

calc_packed_slot_count(n, elem_bytes) == (n * elem_bytes + 31) \div 32

(***************************************************************************)
(* layout.rs: Layout and LayoutCtx                                         *)
(***************************************************************************)
LayoutBytes(n) == [kind |-> "Bytes", n |-> n]

LayoutSlots(n) == [kind |-> "Slots", n |-> n]

Layout_is_packable(l) == l.kind = "Bytes"

Layout_slots(l) == IF l.kind = "Bytes" THEN 1 ELSE l.n

Layout_bytes(l) == IF l.kind = "Bytes" THEN l.n ELSE 32 * l.n

\* LayoutCtx::FULL is LayoutCtx(usize::MAX), the all-ones usize.
FULL == -1

packed(offset) == offset

packed_offset(ctx) == IF ctx = FULL THEN [some |-> FALSE, v |-> 0]
                      ELSE [some |-> TRUE, v |-> ctx]

(***************************************************************************)
(* types.rs: the primitive family                                          *)
(***************************************************************************)
UnsignedTypes == {"u8", "u16", "u32", "u64", "u128"}

SignedTypes == {"i8", "i16", "i32", "i64", "i128"}

PrimTypes == UnsignedTypes \cup SignedTypes \cup {"bool", "address", "u256"}

DynTypes == {"bytes", "string"}

LAYOUT(ty) ==
    CASE ty = "bool" -> LayoutBytes(1)
      [] ty \in {"u8", "i8"} -> LayoutBytes(1)
      [] ty \in {"u16", "i16"} -> LayoutBytes(2)
      [] ty \in {"u32", "i32"} -> LayoutBytes(4)
      [] ty \in {"u64", "i64"} -> LayoutBytes(8)
      [] ty \in {"u128", "i128"} -> LayoutBytes(16)
      [] ty = "address" -> LayoutBytes(20)
      [] ty = "u256" -> LayoutBytes(32)
      [] ty \in DynTypes -> LayoutSlots(1)
      [] ty = "mapping" -> LayoutSlots(1)

SLOTS(ty) == Layout_slots(LAYOUT(ty))

BYTES(ty) == Layout_bytes(LAYOUT(ty))

IS_PACKABLE(ty) == Layout_is_packable(LAYOUT(ty))

\* U256::from(x) for an unsigned integer, U256::from_be_slice for an address:
\* the big-endian bytes right-aligned in a zeroed word.
ZeroExtend(v) ==
    Tup([i \in 1..WordBytes |->
        IF i > WordBytes - Len(v) THEN v[i - (WordBytes - Len(v))] ELSE 0])

\* Mutant: the upper bytes are left zero whatever the sign.
to_word_signed_zerofill(v) ==
    Tup([i \in 1..WordBytes |->
        IF i <= WordBytes - Len(v) THEN 0 ELSE v[i - (WordBytes - Len(v))]])

to_word_signed(v) ==
    LET sign_fill == IF ByteAnd(v[1], 128) # 0 THEN 255 ELSE 0
    IN Tup([i \in 1..WordBytes |->
           IF i <= WordBytes - Len(v) THEN sign_fill
           ELSE v[i - (WordBytes - Len(v))]])

to_word_bool(v) == IF v THEN WordFromInt(1) ELSE ZeroWord

to_word(ty, v) ==
    CASE ty = "bool" -> to_word_bool(v)
      [] ty \in UnsignedTypes -> ZeroExtend(v)
      [] ty \in SignedTypes -> to_word_signed(v)
      [] ty = "address" -> ZeroExtend(v)
      [] ty = "u256" -> v

\* bytes[start..] of the word's big-endian bytes, start = 32 - n.
LowBytes(word, n) ==
    LET start == WordBytes - n
    IN Tup([i \in 1..n |-> word[start + i]])

from_word_bool(word) ==
    LET value == word[WordBytes]
    IN CASE value = 0 -> Ok(FALSE)
         [] value = 1 -> Ok(TRUE)
         [] OTHER -> Err("InvalidBool")

\* Mutant: integers are taken from the high end of the word (bytes[..n]).
from_word_high(ty, word) ==
    CASE ty = "bool" -> from_word_bool(word)
      [] ty \in UnsignedTypes \cup SignedTypes ->
            Ok(Tup([i \in 1..BYTES(ty) |-> word[i]]))
      [] ty = "address" -> Ok(Tup([i \in 1..20 |-> word[i]]))
      [] ty = "u256" -> Ok(word)

from_word(ty, word) ==
    CASE ty = "bool" -> from_word_bool(word)
      [] ty \in UnsignedTypes \cup SignedTypes -> Ok(LowBytes(word, BYTES(ty)))
      [] ty = "address" -> Ok(LowBytes(word, 20))
      [] ty = "u256" -> Ok(word)

(***************************************************************************)
(* packing.rs: extract / insert / zero                                     *)
(***************************************************************************)
extract_packed_value(ty, slot_value, offset, bytes) ==
    IF offset + bytes > 32 THEN Err("PackedSlotOverflow")
    ELSE LET shift_bytes == offset
             mask == create_element_mask(bytes)
         IN from_word(ty, WordAnd(ShrBytes(slot_value, shift_bytes), mask))

\* Mutant: the field is or-ed in without clearing its window first.
insert_packed_value_noclear(ty, current, value, offset, bytes) ==
    IF offset + bytes > 32 THEN Err("PackedSlotOverflow")
    ELSE LET mask == create_element_mask(bytes)
             positioned == ShlBytes(WordAnd(to_word(ty, value), mask), offset)
         IN Ok(WordOr(current, positioned))

insert_packed_value(ty, current, value, offset, bytes) ==
    IF offset + bytes > 32 THEN Err("PackedSlotOverflow")
    ELSE LET field_value == to_word(ty, value)
             mask == create_element_mask(bytes)
             clear_mask == WordNot(ShlBytes(mask, offset))
             cleared == WordAnd(current, clear_mask)
             positioned == ShlBytes(WordAnd(field_value, mask), offset)
         IN Ok(WordOr(cleared, positioned))

\* Mutant: the whole word is cleared.
zero_packed_value_whole(current, offset, bytes) ==
    IF offset + bytes > 32 THEN Err("PackedSlotOverflow") ELSE Ok(ZeroWord)

zero_packed_value(current, offset, bytes) ==
    IF offset + bytes > 32 THEN Err("PackedSlotOverflow")
    ELSE LET mask == create_element_mask(bytes)
             shifted_mask == ShlBytes(mask, offset)
         IN Ok(WordAnd(current, WordNot(shifted_mask)))

(***************************************************************************)
(* storage.rs: the backend interface, over the in-memory backend           *)
(* (a map whose absent slots read as zero).                                *)
(***************************************************************************)
Load(st, slot) == IF slot \in DOMAIN st THEN st[slot] ELSE ZeroWord

Store(st, slot, value) ==
    [s \in (DOMAIN st) \cup {slot} |-> IF s = slot THEN value ELSE st[s]]

\* Mutant: a load goes to the backend as a store of the word it holds.
LoadCall_as_store(st, slot) == <<"store", slot, Load(st, slot)>>

LoadCall(st, slot) == <<"load", slot, Load(st, slot)>>

StoreCall(slot, value) == <<"store", slot, value>>

EmptyStorage == [s \in {} |-> ZeroWord]

(***************************************************************************)
(* keccak256 (alloy_primitives).  The hash itself is outside the           *)
(* repository; it is modelled by a digest of the length, the byte sum and  *)
(* the position-weighted byte sum of its input, which is collision-free on *)
(* the buffers the model hashes.  The low byte 0xfe makes slot arithmetic  *)
(* on a data area carry into the next byte.                                *)
(***************************************************************************)
RECURSIVE ByteSum(_, _)
ByteSum(buf, i) ==
    IF i > Len(buf) THEN 0 ELSE (buf[i] + ByteSum(buf, i + 1)) % 256

RECURSIVE WeightedSum(_, _)
WeightedSum(buf, i) ==
    IF i > Len(buf) THEN 0
    ELSE ((i % 251) * buf[i] + WeightedSum(buf, i + 1)) % 251

keccak256(buf) ==
    Tup([i \in 1..WordBytes |->
        CASE i = 1 -> (Len(buf) + 97) % 256
          [] i = 2 -> ByteSum(buf, 1)
          [] i = 3 -> WeightedSum(buf, 1)
          [] i = WordBytes -> 254
          [] OTHER -> 0])

(***************************************************************************)
(* usize conversions (ruint Uint::to::<usize>() panics on overflow).       *)
(* Lengths of 2^24 and more that still fit a usize are outside the words   *)
(* the model draws.                                                        *)
(***************************************************************************)
FitsUsize(w) == \A i \in 1..(WordBytes - 8) : w[i] = 0

(***************************************************************************)
(* bytes_like.rs                                                           *)
(***************************************************************************)
calc_data_slot(base_slot) == keccak256(base_slot)

calc_chunks(length) == (length + 31) \div 32

is_long_string(value) == value[WordBytes] % 2 = 1

\* Ok(length), or the panic of to::<usize>().
calc_string_length(value, is_long) ==
    IF is_long
    THEN IF FitsUsize(Shr1(value)) THEN Ok(WordLow24(Shr1(value)))
         ELSE Panic("usize overflow")
    ELSE Ok(WordLow24(Shr1(WordAnd(value, WordFromInt(255)))))

encode_short_string(bytes) ==
    Tup([i \in 1..WordBytes |->
        IF i = WordBytes THEN (Len(bytes) * 2) % 256
        ELSE IF i <= Len(bytes) THEN bytes[i]
        ELSE 0])

encode_long_string_length(length) == WordFromInt(2 * length + 1)

\* String::from_utf8 (std): well-formed UTF-8 from position i on.
Cont(b) == b >= 128 /\ b <= 191

RECURSIVE Utf8From(_, _)
Utf8From(d, i) ==
    IF i > Len(d) THEN TRUE
    ELSE LET b == d[i]
             n == Len(d)
         IN CASE b < 128 -> Utf8From(d, i + 1)
              [] b >= 194 /\ b <= 223 ->
                    i + 1 <= n /\ Cont(d[i + 1]) /\ Utf8From(d, i + 2)
              [] b >= 224 /\ b <= 239 ->
                    /\ i + 2 <= n
                    /\ Cont(d[i + 1]) /\ Cont(d[i + 2])
                    /\ (b = 224 => d[i + 1] >= 160)
                    /\ (b = 237 => d[i + 1] <= 159)
                    /\ Utf8From(d, i + 3)
              [] b >= 240 /\ b <= 244 ->
                    /\ i + 3 <= n
                    /\ Cont(d[i + 1]) /\ Cont(d[i + 2]) /\ Cont(d[i + 3])
                    /\ (b = 240 => d[i + 1] >= 144)
                    /\ (b = 244 => d[i + 1] <= 143)
                    /\ Utf8From(d, i + 4)
              [] OTHER -> FALSE

\* The `into` closure of <Bytes as Storable>::load / <String as Storable>::load.
into(ty, data) ==
    IF ty = "string" /\ ~Utf8From(data, 1) THEN Err("InvalidUtf8") ELSE Ok(data)

\* Mutant: the last chunk is taken whole, like the others.
RECURSIVE LoadChunks_whole(_, _, _, _, _)
LoadChunks_whole(st, slot_start, length, chunks, i) ==
    IF i >= chunks THEN [data |-> <<>>, calls |-> <<>>]
    ELSE LET slot == WordAddInt(slot_start, i)
             rest == LoadChunks_whole(st, slot_start, length, chunks, i + 1)
         IN [data |-> Load(st, slot) \o rest.data,
             calls |-> <<LoadCall(st, slot)>> \o rest.calls]

\* The loop of load_bytes_like from chunk i on: [data, calls].
RECURSIVE LoadChunks(_, _, _, _, _)
LoadChunks(st, slot_start, length, chunks, i) ==
    IF i >= chunks THEN [data |-> <<>>, calls |-> <<>>]
    ELSE LET slot == WordAddInt(slot_start, i)
             chunk_bytes == Load(st, slot)
             bytes_to_take == IF i = chunks - 1 THEN length - (i * 32) ELSE 32
             rest == LoadChunks(st, slot_start, length, chunks, i + 1)
         IN [data |-> SubSeq(chunk_bytes, 1, bytes_to_take) \o rest.data,
             calls |-> <<LoadCall(st, slot)>> \o rest.calls]

load_bytes_like(ty, st, base_slot) ==
    LET base_value == Load(st, base_slot)
        is_long == is_long_string(base_value)
        length == calc_string_length(base_value, is_long)
        first == <<LoadCall(st, base_slot)>>
    IN IF length.tag # "Ok" THEN [res |-> length, calls |-> first]
       ELSE IF is_long
       THEN LET slot_start == calc_data_slot(base_slot)
                chunks == calc_chunks(length.val)
                got == LoadChunks(st, slot_start, length.val, chunks, 0)
            IN [res |-> into(ty, got.data), calls |-> first \o got.calls]
       ELSE IF length.val > WordBytes
            THEN [res |-> Panic("slice index"), calls |-> first]
            ELSE [res |-> into(ty, SubSeq(base_value, 1, length.val)),
                  calls |-> first]

\* The loop of store_bytes_like from chunk i on: [st, calls].
RECURSIVE StoreChunks(_, _, _, _, _)
StoreChunks(bytes, st, slot_start, chunks, i) ==
    IF i >= chunks THEN [st |-> st, calls |-> <<>>]
    ELSE LET slot == WordAddInt(slot_start, i)
             chunk_start == i * 32
             chunk_end == IF chunk_start + 32 < Len(bytes)
                          THEN chunk_start + 32 ELSE Len(bytes)
             chunk == SubSeq(bytes, chunk_start + 1, chunk_end)
             chunk_bytes == Tup([k \in 1..WordBytes |->
                                IF k <= Len(chunk) THEN chunk[k] ELSE 0])
             rest == StoreChunks(bytes, Store(st, slot, chunk_bytes),
                                 slot_start, chunks, i + 1)
         IN [st |-> rest.st,
             calls |-> <<StoreCall(slot, chunk_bytes)>> \o rest.calls]

\* Mutant: the short form is chosen up to 32 bytes.
store_bytes_like_short32(bytes, st, base_slot) ==
    LET length == Len(bytes)
    IN IF length <= 32
       THEN [res |-> Ok(Unit),
             st |-> Store(st, base_slot, encode_short_string(bytes)),
             calls |-> <<StoreCall(base_slot, encode_short_string(bytes))>>]
       ELSE LET head == encode_long_string_length(length)
                done == StoreChunks(bytes, Store(st, base_slot, head),
                                    calc_data_slot(base_slot),
                                    calc_chunks(length), 0)
            IN [res |-> Ok(Unit),
                st |-> done.st,
                calls |-> <<StoreCall(base_slot, head)>> \o done.calls]

store_bytes_like(bytes, st, base_slot) ==
    LET length == Len(bytes)
    IN IF length <= 31
       THEN [res |-> Ok(Unit),
             st |-> Store(st, base_slot, encode_short_string(bytes)),
             calls |-> <<StoreCall(base_slot, encode_short_string(bytes))>>]
       ELSE LET head == encode_long_string_length(length)
                slot_start == calc_data_slot(base_slot)
                chunks == calc_chunks(length)
                done == StoreChunks(bytes, Store(st, base_slot, head),
                                    slot_start, chunks, 0)
            IN [res |-> Ok(Unit),
                st |-> done.st,
                calls |-> <<StoreCall(base_slot, head)>> \o done.calls]

\* The loop of delete_bytes_like from chunk i on: [st, calls].
RECURSIVE ZeroChunks(_, _, _, _)
ZeroChunks(st, slot_start, chunks, i) ==
    IF i >= chunks THEN [st |-> st, calls |-> <<>>]
    ELSE LET slot == WordAddInt(slot_start, i)
             rest == ZeroChunks(Store(st, slot, ZeroWord), slot_start,
                                chunks, i + 1)
         IN [st |-> rest.st,
             calls |-> <<StoreCall(slot, ZeroWord)>> \o rest.calls]

delete_bytes_like(st, base_slot) ==
    LET base_value == Load(st, base_slot)
        is_long == is_long_string(base_value)
        first == <<LoadCall(st, base_slot)>>
    IN IF is_long
       THEN LET length == calc_string_length(base_value, TRUE)
            IN IF length.tag # "Ok"
               THEN [res |-> length, st |-> st, calls |-> first]
               ELSE LET slot_start == calc_data_slot(base_slot)
                        chunks == calc_chunks(length.val)
                        done == ZeroChunks(st, slot_start, chunks, 0)
                    IN [res |-> Ok(Unit),
                        st |-> Store(done.st, base_slot, ZeroWord),
                        calls |-> first \o done.calls
                                  \o <<StoreCall(base_slot, ZeroWord)>>]
       ELSE [res |-> Ok(Unit),
             st |-> Store(st, base_slot, ZeroWord),
             calls |-> first \o <<StoreCall(base_slot, ZeroWord)>>]

(***************************************************************************)
(* layout.rs: Storable for the primitive family (the Packable blanket      *)
(* impl) and the default Storable::delete; bytes_like.rs: Storable for     *)
(* Bytes and String.  Each returns the result, the backend afterwards and  *)
(* the backend calls it issued.                                            *)
(***************************************************************************)
Packable_load(ty, st, slot, ctx) ==
    LET off == packed_offset(ctx)
    IN IF ~off.some
       THEN [res |-> from_word(ty, Load(st, slot)),
             calls |-> <<LoadCall(st, slot)>>]
       ELSE LET slot_value == Load(st, slot)
            IN [res |-> extract_packed_value(ty, slot_value, off.v, BYTES(ty)),
                calls |-> <<LoadCall(st, slot)>>]

\* Mutant: a FULL store merges the value into the word already there.
Packable_store_merge(ty, value, st, slot, ctx) ==
    LET off == packed_offset(ctx)
        current == Load(st, slot)
        updated == IF off.some
                   THEN insert_packed_value(ty, current, value, off.v, BYTES(ty))
                   ELSE Ok(WordOr(current, to_word(ty, value)))
    IN IF updated.tag # "Ok"
       THEN [res |-> updated, st |-> st, calls |-> <<LoadCall(st, slot)>>]
       ELSE [res |-> Ok(Unit),
             st |-> Store(st, slot, updated.val),
             calls |-> <<LoadCall(st, slot), StoreCall(slot, updated.val)>>]

Packable_store(ty, value, st, slot, ctx) ==
    LET off == packed_offset(ctx)
    IN IF ~off.some
       THEN [res |-> Ok(Unit),
             st |-> Store(st, slot, to_word(ty, value)),
             calls |-> <<StoreCall(slot, to_word(ty, value))>>]
       ELSE LET current == Load(st, slot)
                updated == insert_packed_value(ty, current, value, off.v,
                                               BYTES(ty))
            IN IF updated.tag # "Ok"
               THEN [res |-> updated, st |-> st,
                     calls |-> <<LoadCall(st, slot)>>]
               ELSE [res |-> Ok(Unit),
                     st |-> Store(st, slot, updated.val),
                     calls |-> <<LoadCall(st, slot),
                                 StoreCall(slot, updated.val)>>]

\* for offset in 0..Self::SLOTS { storage.store(slot + offset, ZERO)?; }
RECURSIVE ZeroSlots(_, _, _, _)
ZeroSlots(st, slot, count, offset) ==
    IF offset >= count THEN [st |-> st, calls |-> <<>>]
    ELSE LET target == WordAddInt(slot, offset)
             rest == ZeroSlots(Store(st, target, ZeroWord), slot, count,
                               offset + 1)
         IN [st |-> rest.st,
             calls |-> <<StoreCall(target, ZeroWord)>> \o rest.calls]

Default_delete(ty, st, slot, ctx) ==
    LET off == packed_offset(ctx)
    IN IF ~off.some
       THEN LET done == ZeroSlots(st, slot, SLOTS(ty), 0)
            IN [res |-> Ok(Unit), st |-> done.st, calls |-> done.calls]
       ELSE LET bytes == BYTES(ty)
                current == Load(st, slot)
                cleared == zero_packed_value(current, off.v, bytes)
            IN IF cleared.tag # "Ok"
               THEN [res |-> cleared, st |-> st,
                     calls |-> <<LoadCall(st, slot)>>]
               ELSE [res |-> Ok(Unit),
                     st |-> Store(st, slot, cleared.val),
                     calls |-> <<LoadCall(st, slot),
                                 StoreCall(slot, cleared.val)>>]

Storable_load(ty, st, slot, ctx) ==
    IF ty \in DynTypes THEN load_bytes_like(ty, st, slot)
    ELSE Packable_load(ty, st, slot, ctx)

Storable_store(ty, value, st, slot, ctx) ==
    IF ty \in DynTypes THEN store_bytes_like(value, st, slot)
    ELSE Packable_store(ty, value, st, slot, ctx)

Storable_delete(ty, st, slot, ctx) ==
    IF ty \in DynTypes THEN delete_bytes_like(st, slot)
    ELSE Default_delete(ty, st, slot, ctx)

(***************************************************************************)
(* slot.rs: Slot<T> as a Handler                                           *)
(***************************************************************************)
Slot_new(ty, slot) == [kind |-> "slot", ty |-> ty, slot |-> slot, ctx |-> FULL]

Slot_new_with_ctx(ty, slot, ctx) ==
    [kind |-> "slot", ty |-> ty, slot |-> slot, ctx |-> ctx]

Slot_read(h, st) == Storable_load(h.ty, st, h.slot, h.ctx)

Slot_write(h, st, value) == Storable_store(h.ty, value, st, h.slot, h.ctx)

Slot_delete(h, st) == Storable_delete(h.ty, st, h.slot, h.ctx)

(***************************************************************************)
(* Values and words the model draws its inputs from.                       *)
(***************************************************************************)
BeZero(n) == Tup([i \in 1..n |-> 0])

BeOne(n) == Tup([i \in 1..n |-> IF i = n THEN 1 ELSE 0])

\* 0xff..ff: the maximum of uN, -1 of iN
BeOnes(n) == Tup([i \in 1..n |-> 255])

\* 0x80 00..00: the minimum of iN
BeTop(n) == Tup([i \in 1..n |-> IF i = 1 THEN 128 ELSE 0])

\* 0x01 02 03 ..: every byte different and the sign bit clear
BeCount(n) == Tup([i \in 1..n |-> i])

Values(ty) ==
    IF ty = "bool" THEN {TRUE, FALSE}
    ELSE LET n == BYTES(ty)
         IN {BeZero(n), BeOne(n), BeOnes(n), BeTop(n), BeCount(n)}

\* 0x11 12 .. 30: every byte different, none of them zero
PatternWord == Tup([i \in 1..WordBytes |-> 16 + i])

SampleWords == {ZeroWord, U256_MAX, PatternWord}

HandleSlot == WordFromInt(7)

NeighbourSlot == WordAddInt(HandleSlot, 1)

\* A backend holding w at the handle's slot and a pattern next to it.
BackendWith(w) ==
    [s \in {HandleSlot, NeighbourSlot} |->
        IF s = HandleSlot THEN w ELSE PatternWord]

Offsets == 0..31

NoOp == [name |-> "new", arg |-> Unit, res |-> Ok(Unit)]

NothingWritten == [state |-> "none", val |-> Unit]

(***************************************************************************)
(* Slot<T> under test: a primitive handle in FULL or Packed(o) context     *)
(* over a backend with arbitrary prior contents.                           *)
(***************************************************************************)
SlotInit ==
    /\ \E ty \in PrimTypes, ctx \in {FULL} \cup Offsets :
          handle = Slot_new_with_ctx(ty, HandleSlot, packed(ctx))
    /\ storage \in {EmptyStorage} \cup {BackendWith(w) : w \in SampleWords}
    /\ pre = storage
    /\ calls = <<>>
    /\ last = NoOp
    /\ written = NothingWritten

SlotWrite ==
    /\ handle.kind = "slot"
    /\ \E v \in Values(handle.ty) :
          \E r \in {Slot_write(handle, storage, v)} :
             /\ storage' = r.st
             /\ calls' = r.calls
             /\ last' = [name |-> "write", arg |-> v, res |-> r.res]
             /\ written' = IF r.res.tag = "Ok"
                           THEN [state |-> "value", val |-> v]
                           ELSE written
    /\ pre' = storage
    /\ UNCHANGED handle

SlotRead ==
    /\ handle.kind = "slot"
    /\ \E r \in {Slot_read(handle, storage)} :
          /\ calls' = r.calls
          /\ last' = [name |-> "read", arg |-> Unit, res |-> r.res]
    /\ pre' = storage
    /\ UNCHANGED <<handle, storage, written>>

SlotDelete ==
    /\ handle.kind = "slot"
    /\ \E r \in {Slot_delete(handle, storage)} :
          /\ storage' = r.st
          /\ calls' = r.calls
          /\ last' = [name |-> "delete", arg |-> Unit, res |-> r.res]
          /\ written' = IF r.res.tag = "Ok"
                        THEN [state |-> "deleted", val |-> Unit]
                        ELSE written
    /\ pre' = storage
    /\ UNCHANGED handle

SlotNext == SlotWrite \/ SlotRead \/ SlotDelete

SpecSlot == SlotInit /\ [][SlotNext]_vars

(***************************************************************************)
(* Properties of the slot handle.                                          *)
(***************************************************************************)
\* Bits [8o, 8(o+b)) of a word are its big-endian bytes 32-o-b+1 .. 32-o.
InWindow(i, o, b) == i > WordBytes - o - b /\ i <= WordBytes - o

TargetBefore == Load(pre, handle.slot)

TargetAfter == Load(storage, handle.slot)

OtherSlotsUnchanged ==
    /\ (DOMAIN storage) \ {handle.slot} = (DOMAIN pre) \ {handle.slot}
    /\ \A s \in (DOMAIN pre) \ {handle.slot} : storage[s] = pre[s]

PackedInRange == handle.ctx # FULL /\ handle.ctx + BYTES(handle.ty) <= 32

PackedOverflow == handle.ctx # FULL /\ handle.ctx + BYTES(handle.ty) > 32

Negative(v) == v[1] >= 128

\* C1: a packed write of v at offset o succeeds and changes the stored word
\* only inside bits [8o, 8(o+BYTES(T))), whatever the word held before, and a
\* packed read at o after it returns v.
C1_PackedRoundTrip ==
    /\ (last.name = "write" /\ PackedInRange) =>
          /\ last.res.tag = "Ok"
          /\ \A i \in 1..WordBytes :
                ~InWindow(i, handle.ctx, BYTES(handle.ty)) =>
                    TargetAfter[i] = TargetBefore[i]
          /\ OtherSlotsUnchanged
    /\ (last.name = "read" /\ PackedInRange /\ written.state = "value") =>
          /\ last.res.tag = "Ok"
          /\ last.res.val = written.val

C1_Witness ==
    /\ last.name = "read"
    /\ handle.ty = "i64"
    /\ handle.ctx = 5
    /\ written.state = "value"
    /\ written.val = BeOnes(8)
    /\ last.res.tag = "Ok"
    /\ TargetAfter[1] = PatternWord[1]
    /\ TargetAfter[WordBytes] = PatternWord[WordBytes]

\* C2: a FULL write of v followed by a FULL read of the same slot returns v,
\* for every primitive type.
C2_FullRoundTrip ==
    (last.name = "read" /\ handle.ctx = FULL /\ written.state = "value") =>
        /\ last.res.tag = "Ok"
        /\ last.res.val = written.val

C2_Witness ==
    /\ last.name = "read"
    /\ handle.ctx = FULL
    /\ handle.ty = "i128"
    /\ written.state = "value"
    /\ written.val = BeTop(16)
    /\ last.res.tag = "Ok"

\* C3: a FULL write of a signed value v of n bytes stores the two's-complement
\* sign extension of v (upper 32-n bytes 0xff when v < 0, 0x00 otherwise, low n
\* bytes those of v), and a FULL read interprets the low n bytes and returns v.
C3_SignExtension ==
    /\ (last.name = "write" /\ handle.ctx = FULL /\ handle.ty \in SignedTypes) =>
          LET n == BYTES(handle.ty)
              v == last.arg
          IN /\ last.res.tag = "Ok"
             /\ \A i \in 1..(WordBytes - n) :
                   TargetAfter[i] = IF Negative(v) THEN 255 ELSE 0
             /\ \A i \in 1..n : TargetAfter[WordBytes - n + i] = v[i]
    /\ (/\ last.name = "read" /\ handle.ctx = FULL
        /\ handle.ty \in SignedTypes /\ written.state = "value") =>
          LET n == BYTES(handle.ty)
          IN /\ last.res.tag = "Ok"
             /\ last.res.val = written.val
             /\ \A i \in 1..n : last.res.val[i] = TargetAfter[WordBytes - n + i]

C3_Witness ==
    /\ last.name = "write"
    /\ handle.ctx = FULL
    /\ handle.ty = "i32"
    /\ last.arg = BeOnes(4)
    /\ TargetAfter = U256_MAX
    /\ TargetBefore = ZeroWord

UpperBytesZero(w, n) == \A i \in 1..(WordBytes - n) : w[i] = 0

\* C4 as stated: after a FULL write of any primitive of layout Bytes(n), signed
\* ones included, the upper 32-n bytes of the stored word are zero.
C4_UpperBytesZero_AsStated ==
    (last.name = "write" /\ handle.ctx = FULL /\ last.res.tag = "Ok") =>
        UpperBytesZero(TargetAfter, BYTES(handle.ty))

\* C4 amended: after a FULL write of a primitive of layout Bytes(n) the upper
\* 32-n bytes of the stored word are zero for bool, unsigned integers,
\* addresses and non-negative signed values; for a negative signed value they
\* are all 0xff.
C4_UpperBytes ==
    (last.name = "write" /\ handle.ctx = FULL) =>
        /\ last.res.tag = "Ok"
        /\ IF handle.ty \in SignedTypes /\ Negative(last.arg)
           THEN \A i \in 1..(WordBytes - BYTES(handle.ty)) : TargetAfter[i] = 255
           ELSE UpperBytesZero(TargetAfter, BYTES(handle.ty))

C4_Witness ==
    /\ last.name = "write"
    /\ handle.ctx = FULL
    /\ handle.ty = "u64"
    /\ last.arg = BeOnes(8)
    /\ TargetBefore = PatternWord
    /\ UpperBytesZero(TargetAfter, 8)

\* C5 as stated: a packed read, write or delete with o + b > 32 returns
\* PackedSlotOverflow and issues no backend call at all, leaving the backend
\* as it was.
C5_OverflowTouchesNothing ==
    (last.name \in {"read", "write", "delete"} /\ PackedOverflow) =>
        /\ last.res.tag = "Err"
        /\ last.res.val = "PackedSlotOverflow"
        /\ calls = <<>>
        /\ storage = pre

\* C6: delete of a packed field at (o, b) leaves the target word as it was
\* with bits [8o, 8(o+b)) zeroed, and changes no other slot.
C6_DeleteLocality ==
    (last.name = "delete" /\ PackedInRange) =>
        /\ last.res.tag = "Ok"
        /\ \A i \in 1..WordBytes :
              TargetAfter[i] =
                  IF InWindow(i, handle.ctx, BYTES(handle.ty)) THEN 0
                  ELSE TargetBefore[i]
        /\ OtherSlotsUnchanged

C6_Witness ==
    /\ last.name = "delete"
    /\ handle.ty = "u32"
    /\ handle.ctx = 3
    /\ TargetBefore = PatternWord
    /\ TargetAfter # PatternWord
    /\ TargetAfter # ZeroWord

(***************************************************************************)
(* bytes_like.rs: BytesLikeHandler<T> for T = Bytes and T = String         *)
(***************************************************************************)
Bytes_new(ty, base_slot) ==
    [kind |-> "bytes", ty |-> ty, slot |-> base_slot, ctx |-> FULL]

Bytes_as_slot(h) == Slot_new(h.ty, h.slot)

Bytes_len(h, st) ==
    LET got == Slot_read(Slot_new("u256", h.slot), st)
    IN IF got.res.tag # "Ok" THEN got
       ELSE [res |-> calc_string_length(got.res.val,
                                        is_long_string(got.res.val)),
             calls |-> got.calls]

Bytes_is_empty(h, st) ==
    LET got == Bytes_len(h, st)
    IN IF got.res.tag # "Ok" THEN got
       ELSE [res |-> Ok(got.res.val = 0), calls |-> got.calls]

Bytes_read(h, st) == Slot_read(Bytes_as_slot(h), st)

Bytes_write(h, st, value) == Slot_write(Bytes_as_slot(h), st, value)

Bytes_delete(h, st) == Slot_delete(Bytes_as_slot(h), st)

(***************************************************************************)
(* Byte strings and backends the byte-string handle is driven with.        *)
(***************************************************************************)
MaxLen == 66

\* 0xaa repeated: not valid UTF-8
FillBytes(n) == Tup([i \in 1..n |-> 170])

\* 0x01 02 03 ..: every byte of the first 255 different
CountBytes(n) == Tup([i \in 1..n |-> 1 + ((i - 1) % 255)])

\* "ABC..Zabc..": ASCII text
AsciiBytes(n) == Tup([i \in 1..n |-> 65 + ((i - 1) % 58)])

TextStrings == {AsciiBytes(n) : n \in 0..MaxLen}

BinaryStrings ==
    {FillBytes(n) : n \in 0..MaxLen} \cup {CountBytes(n) : n \in 0..MaxLen}

ByteStrings(ty) == IF ty = "string" THEN TextStrings ELSE BinaryStrings

\* Low bytes of base words: empty long (1), short of 24, 31, 32, 33 and 64
\* bytes (48, 62, 64, 66, 128), long of 40 and 127 bytes (81, 255).
BaseLowBytes == {1, 48, 62, 64, 66, 81, 128, 255}

BaseWords ==
    {ZeroWord, PatternWord, U256_MAX} \cup {WordFromInt(n) : n \in BaseLowBytes}

DataSlot(j) == WordAddInt(calc_data_slot(HandleSlot), j)

\* A backend holding w at the base slot over a data area that is absent or
\* holds earlier contents in its first two slots.
BytesBackends ==
    {EmptyStorage}
    \cup {[s \in {HandleSlot} |-> w] : w \in BaseWords}
    \cup {[s \in {HandleSlot, DataSlot(0), DataSlot(1)} |->
              IF s = HandleSlot THEN w
              ELSE IF s = DataSlot(0) THEN PatternWord ELSE U256_MAX]
          : w \in BaseWords}

BytesInit ==
    /\ \E ty \in DynTypes : handle = Bytes_new(ty, HandleSlot)
    /\ storage \in BytesBackends
    /\ pre = storage
    /\ calls = <<>>
    /\ last = NoOp
    /\ written = NothingWritten

\* Each run writes through the handle once.
BytesWrite ==
    /\ handle.kind = "bytes"
    /\ written.state = "none"
    /\ \E v \in ByteStrings(handle.ty) :
          \E r \in {Bytes_write(handle, storage, v)} :
             /\ storage' = r.st
             /\ calls' = r.calls
             /\ last' = [name |-> "write", arg |-> v, res |-> r.res]
             /\ written' = IF r.res.tag = "Ok"
                           THEN [state |-> "value", val |-> v]
                           ELSE written
    /\ pre' = storage
    /\ UNCHANGED handle

BytesRead ==
    /\ handle.kind = "bytes"
    /\ \E r \in {Bytes_read(handle, storage)} :
          /\ calls' = r.calls
          /\ last' = [name |-> "read", arg |-> Unit, res |-> r.res]
    /\ pre' = storage
    /\ UNCHANGED <<handle, storage, written>>

BytesLen ==
    /\ handle.kind = "bytes"
    /\ \E r \in {Bytes_len(handle, storage)} :
          /\ calls' = r.calls
          /\ last' = [name |-> "len", arg |-> Unit, res |-> r.res]
    /\ pre' = storage
    /\ UNCHANGED <<handle, storage, written>>

BytesIsEmpty ==
    /\ handle.kind = "bytes"
    /\ \E r \in {Bytes_is_empty(handle, storage)} :
          /\ calls' = r.calls
          /\ last' = [name |-> "is_empty", arg |-> Unit, res |-> r.res]
    /\ pre' = storage
    /\ UNCHANGED <<handle, storage, written>>

BytesDelete ==
    /\ handle.kind = "bytes"
    /\ \E r \in {Bytes_delete(handle, storage)} :
          /\ storage' = r.st
          /\ calls' = r.calls
          /\ last' = [name |-> "delete", arg |-> Unit, res |-> r.res]
          /\ written' = IF r.res.tag = "Ok"
                        THEN [state |-> "deleted", val |-> Unit]
                        ELSE written
    /\ pre' = storage
    /\ UNCHANGED handle

BytesNext ==
    BytesWrite \/ BytesRead \/ BytesLen \/ BytesIsEmpty \/ BytesDelete

SpecBytes == BytesInit /\ [][BytesNext]_vars

(***************************************************************************)
(* Properties of the byte-string handle.                                   *)
(***************************************************************************)
StoredSlots ==
    {calls[n][2] : n \in {m \in DOMAIN calls : calls[m][1] = "store"}}

LoadedSlots ==
    {calls[n][2] : n \in {m \in DOMAIN calls : calls[m][1] = "load"}}

UnchangedOutside(slots) ==
    /\ \A s \in (DOMAIN storage) \ slots : s \in DOMAIN pre /\ storage[s] = pre[s]
    /\ \A s \in (DOMAIN pre) \ slots : s \in DOMAIN storage

\* Payload bytes [32j, 32j+32) of b, zero-padded to a word.
PayloadWord(b, j) ==
    Tup([k \in 1..WordBytes |->
            IF 32 * j + k <= Len(b) THEN b[32 * j + k] ELSE 0])

\* C7: a write of L bytes at base slot s uses the short form iff L <= 31.
\* Short: only s is stored, payload in its L most significant bytes, zeros
\* after it, 2L in the least significant byte.  Long: s holds 2L+1 and slot
\* H(s)+j holds payload bytes [32j, 32j+32), the last one zero-padded, for
\* j < ceil(L/32); no other slot is written and no slot is loaded.
C7_BytesEncoding ==
    (handle.kind = "bytes" /\ last.name = "write") =>
        \E s \in {handle.slot}, b \in {last.arg}, H \in {keccak256(handle.slot)} :
            \E area \in {{WordAddInt(H, j) : j \in 0..((Len(b) + 31) \div 32 - 1)}} :
                /\ last.res.tag = "Ok"
                /\ LoadedSlots = {}
                /\ (storage[s][WordBytes] % 2 = 0) <=> (Len(b) <= 31)
                /\ IF Len(b) <= 31
                   THEN /\ StoredSlots = {s}
                        /\ \A i \in 1..Len(b) : storage[s][i] = b[i]
                        /\ \A i \in (Len(b) + 1)..(WordBytes - 1) :
                              storage[s][i] = 0
                        /\ storage[s][WordBytes] = 2 * Len(b)
                        /\ UnchangedOutside({s})
                   ELSE /\ StoredSlots = {s} \cup area
                        /\ IsSmallWord(storage[s])
                        /\ WordLow24(storage[s]) = 2 * Len(b) + 1
                        /\ \A j \in 0..((Len(b) + 31) \div 32 - 1) :
                              storage[WordAddInt(H, j)] = PayloadWord(b, j)
                        /\ UnchangedOutside({s} \cup area)

C7_Witness ==
    /\ handle.kind = "bytes"
    /\ last.name = "write"
    /\ last.arg = FillBytes(40)
    /\ storage[handle.slot][WordBytes] = 81
    /\ storage[DataSlot(0)] = Tup([k \in 1..WordBytes |-> 170])
    /\ storage[DataSlot(1)] = Tup([k \in 1..WordBytes |-> IF k <= 8 THEN 170 ELSE 0])
    /\ DOMAIN storage = {handle.slot, DataSlot(0), DataSlot(1)}

\* C8: after a write of b through the bytes (or text) handle, read returns
\* exactly b and len returns its length, for every length 0..MaxLen.
C8_BytesRoundTrip ==
    (handle.kind = "bytes" /\ written.state = "value") =>
        /\ (last.name = "read" =>
               last.res.tag = "Ok" /\ last.res.val = written.val)
        /\ (last.name = "len" =>
               last.res.tag = "Ok" /\ last.res.val = Len(written.val))

C8_Witness ==
    /\ handle.ty = "bytes"
    /\ written.state = "value"
    /\ written.val = CountBytes(65)
    /\ last.name = "read"
    /\ last.res.tag = "Ok"
    /\ Len(last.res.val) = 65
    /\ Len(calls) = 4

\* C9 as stated: whatever word the base slot holds and whatever the data area
\* holds, a read through the bytes handle returns a byte sequence: never an
\* error, never a panic.
C9_BytesReadInfallible ==
    (handle.ty = "bytes" /\ last.name = "read") => last.res.tag = "Ok"

(***************************************************************************)
(* storage.rs: StorageKey; mapping.rs: Mapping<K, V>                       *)
(***************************************************************************)
KeyTypes == {"address", "u256"}

\* Mutant: an address key gives 32 bytes, the address first.
as_storage_bytes_address_first(kty, key) ==
    IF kty = "address"
    THEN Tup([i \in 1..32 |-> IF i <= 20 THEN key[i] ELSE 0])
    ELSE SubSeq(key, 1, 32)

\* Address::as_slice (20 bytes), U256::to_be_bytes::<32>() (32 bytes)
as_storage_bytes(kty, key) ==
    IF kty = "address" THEN SubSeq(key, 1, 20) ELSE SubSeq(key, 1, 32)

\* Mutant: the key is left-aligned in its padded area.
mapping_slot_leftaligned(kty, key, slot) ==
    LET key_bytes == as_storage_bytes(kty, key)
        padded_len == ((Len(key_bytes) + 31) \div 32) * 32
        buf == [i \in 1..(padded_len + 32) |->
                   IF i <= Len(key_bytes) THEN key_bytes[i]
                   ELSE IF i > padded_len THEN slot[i - padded_len]
                   ELSE 0]
    IN keccak256(Tup(buf))

mapping_slot(kty, key, slot) ==
    LET key_bytes == as_storage_bytes(kty, key)
        padded_len == ((Len(key_bytes) + 31) \div 32) * 32
        buf == [i \in 1..(padded_len + 32) |->
                   IF i > padded_len - Len(key_bytes) /\ i <= padded_len
                   THEN key_bytes[i - (padded_len - Len(key_bytes))]
                   ELSE IF i > padded_len THEN slot[i - padded_len]
                   ELSE 0]
    IN keccak256(Tup(buf))

Mapping_new(kty, vty, base_slot) ==
    [kind |-> "mapping", ty |-> "mapping", slot |-> base_slot, ctx |-> FULL,
     kty |-> kty, vty |-> vty]

\* V::handle(slot, ctx) for the value types of the model; a nested mapping
\* is Mapping<Address, U256>.
StorableType_handle(vty, slot, ctx) ==
    CASE vty \in PrimTypes -> Slot_new_with_ctx(vty, slot, ctx)
      [] vty \in DynTypes -> Bytes_new(vty, slot)
      [] vty = "mapping" -> Mapping_new("address", "u256", slot)

Mapping_at(m, key) ==
    StorableType_handle(m.vty, mapping_slot(m.kty, key, m.slot), FULL)

\* Mutant: the field offset is left out of the hashed slot.
Mapping_at_offset_nofield(kty, vty, struct_base_slot, field_offset_slots, key) ==
    StorableType_handle(vty, mapping_slot(kty, key, struct_base_slot), FULL)

Mapping_at_offset(kty, vty, struct_base_slot, field_offset_slots, key) ==
    LET field_slot == WordAddInt(struct_base_slot, field_offset_slots)
    IN StorableType_handle(vty, mapping_slot(kty, key, field_slot), FULL)

\* Handler::write of the handle V::handle returned.
Handler_write(h, st, value) ==
    IF h.kind = "bytes" THEN Bytes_write(h, st, value)
    ELSE Slot_write(h, st, value)

(***************************************************************************)
(* Mapping<K, V> under test.                                               *)
(***************************************************************************)
MaxFieldOffset == 1

MapValueTypes ==
    {"bool", "u64", "address", "u256", "string", "mapping"}

MapBases == {WordFromInt(1), PatternWord}

StructBases == {ZeroWord, WordFromInt(255)}

Keys(kty) ==
    IF kty = "address"
    THEN {BeZero(20), BeCount(20), BeOnes(20)}
    ELSE {ZeroWord, WordFromInt(2), PatternWord}

EntryValues(vty) ==
    IF vty \in DynTypes THEN {AsciiBytes(2), AsciiBytes(40)}
    ELSE IF vty = "bool" THEN {FALSE, TRUE}
    ELSE {BeOne(BYTES(vty)), BeCount(BYTES(vty))}

MapInit ==
    /\ \E kty \in KeyTypes, vty \in MapValueTypes, base \in MapBases :
          handle = Mapping_new(kty, vty, base)
    /\ storage \in {EmptyStorage, BackendWith(PatternWord)}
    /\ pre = storage
    /\ calls = <<>>
    /\ last = NoOp
    /\ written = NothingWritten

MapAt ==
    /\ handle.kind = "mapping"
    /\ \E key \in Keys(handle.kty) :
          last' = [name |-> "at",
                   arg |-> [key |-> key],
                   res |-> Ok(Mapping_at(handle, key))]
    /\ calls' = <<>>
    /\ pre' = storage
    /\ UNCHANGED <<handle, storage, written>>

MapAtOffset ==
    /\ handle.kind = "mapping"
    /\ \E key \in Keys(handle.kty), sb \in StructBases, f \in 0..MaxFieldOffset :
          last' = [name |-> "at_offset",
                   arg |-> [key |-> key, struct_base |-> sb, field |-> f],
                   res |-> Ok(Mapping_at_offset(handle.kty, handle.vty,
                                                sb, f, key))]
    /\ calls' = <<>>
    /\ pre' = storage
    /\ UNCHANGED <<handle, storage, written>>

\* map.at(key).write(value); each run writes one entry.
MapEntryWrite ==
    /\ handle.kind = "mapping"
    /\ handle.vty # "mapping"
    /\ written.state = "none"
    /\ \E key \in Keys(handle.kty), v \in EntryValues(handle.vty) :
          \E r \in {Handler_write(Mapping_at(handle, key), storage, v)} :
             /\ storage' = r.st
             /\ calls' = r.calls
             /\ last' = [name |-> "entry_write",
                         arg |-> [key |-> key, value |-> v],
                         res |-> r.res]
             /\ written' = [state |-> "value", val |-> v]
    /\ pre' = storage
    /\ UNCHANGED handle

MapNext == MapAt \/ MapAtOffset \/ MapEntryWrite

SpecMap == MapInit /\ [][MapNext]_vars

(***************************************************************************)
(* Properties of the mapping handle.                                       *)
(***************************************************************************)
Zeros(n) == Tup([i \in 1..n |-> 0])

\* pad32_left(key bytes) || be32(base)
KeyBuffer(key_bytes, base) ==
    Zeros(((Len(key_bytes) + 31) \div 32) * 32 - Len(key_bytes))
        \o key_bytes \o base

HandlerKind(vty) ==
    CASE vty \in PrimTypes -> "slot"
      [] vty \in DynTypes -> "bytes"
      [] vty = "mapping" -> "mapping"

\* C10: at(k) is V's handle at H(pad32_left(key_bytes(k)) || be32(b)) in FULL
\* context, whatever the backend holds, and at_offset(struct_base, f, k) is
\* new(struct_base + f).at(k).
C10_MappingSlot ==
    /\ (handle.kind = "mapping" /\ last.name = "at") =>
          /\ last.res.tag = "Ok"
          /\ last.res.val.slot =
                keccak256(KeyBuffer(as_storage_bytes(handle.kty, last.arg.key),
                                    handle.slot))
          /\ last.res.val.ctx = FULL
          /\ last.res.val.ty = handle.vty
          /\ last.res.val.kind = HandlerKind(handle.vty)
          /\ calls = <<>>
    /\ (handle.kind = "mapping" /\ last.name = "at_offset") =>
          /\ last.res.tag = "Ok"
          /\ last.res.val =
                Mapping_at(Mapping_new(handle.kty, handle.vty,
                                       WordAddInt(last.arg.struct_base,
                                                  last.arg.field)),
                           last.arg.key)
          /\ calls = <<>>

C10_Witness ==
    /\ handle.kind = "mapping"
    /\ handle.kty = "address"
    /\ handle.vty = "u64"
    /\ last.name = "at_offset"
    /\ last.arg.key = BeCount(20)
    /\ last.arg.field = MaxFieldOffset
    /\ last.arg.struct_base = WordFromInt(255)
    /\ written.state = "value"
    /\ last.res.val.slot \notin DOMAIN storage

(***************************************************************************)
(* Types built over the primitive family: T is its innermost type and the  *)
(* lengths of the fixed arrays around it, innermost first, so that         *)
(* [[u64; 3]; 2] is [base |-> "u64", dims |-> <<3, 2>>].                   *)
(***************************************************************************)
Ty(base) == [base |-> base, dims |-> <<>>]

ArrayOf(T, N) == [base |-> T.base, dims |-> T.dims \o <<N>>]

IsArray(T) == T.dims # <<>>

ElemType(T) == [base |-> T.base, dims |-> SubSeq(T.dims, 1, Len(T.dims) - 1)]

ArrayLen(T) == T.dims[Len(T.dims)]

None == [some |-> FALSE, v |-> Unit]

Some(x) == [some |-> TRUE, v |-> x]

(***************************************************************************)
(* array.rs: StorableType, Storable and the handle of [T; N];              *)
(* vec.rs: StorableType for Vec<T>                                         *)
(***************************************************************************)
\* Mutant: a packed array is laid out one element per slot.
T_LAYOUT_unpacked(T) ==
    IF ~IsArray(T)
    THEN IF T.base = "vec" THEN LayoutSlots(1) ELSE LAYOUT(T.base)
    ELSE LayoutSlots(ArrayLen(T))

RECURSIVE T_LAYOUT(_)
T_LAYOUT(T) ==
    IF ~IsArray(T)
    THEN IF T.base = "vec" THEN LayoutSlots(1) ELSE LAYOUT(T.base)
    ELSE LET elem == T_LAYOUT(ElemType(T))
             N == ArrayLen(T)
         IN IF Layout_bytes(elem) <= 16
            THEN LayoutSlots(calc_packed_slot_count(N, Layout_bytes(elem)))
            ELSE LayoutSlots(N * Layout_slots(elem))

T_SLOTS(T) == Layout_slots(T_LAYOUT(T))

T_BYTES(T) == Layout_bytes(T_LAYOUT(T))

T_IS_PACKABLE(T) == Layout_is_packable(T_LAYOUT(T))

\* IS_DYNAMIC: overridden to true by Vec<T>, Bytes and String only.
T_IS_DYNAMIC(T) == ~IsArray(T) /\ T.base \in DynTypes \cup {"vec"}

ArrayHandler_new(E, N, base_slot) ==
    [kind |-> "array", ty |-> E, n |-> N, slot |-> base_slot, ctx |-> FULL]

\* T::handle(slot, ctx)
T_handle(T, slot, ctx) ==
    IF IsArray(T) THEN ArrayHandler_new(ElemType(T), ArrayLen(T), slot)
    ELSE StorableType_handle(T.base, slot, ctx)

\* Mutant: the element offset inside the slot is dropped.
ArrayHandler_at_offset0(h, index) ==
    IF index >= h.n THEN None
    ELSE IF T_BYTES(h.ty) <= 16
         THEN LET location == calc_element_loc(index, T_BYTES(h.ty))
              IN Some(T_handle(h.ty,
                               WordAddInt(h.slot, location.offset_slots),
                               packed(0)))
         ELSE Some(T_handle(h.ty,
                            WordAddInt(h.slot, index * T_SLOTS(h.ty)), FULL))

ArrayHandler_at(h, index) ==
    IF index >= h.n THEN None
    ELSE IF T_BYTES(h.ty) <= 16
         THEN LET location == calc_element_loc(index, T_BYTES(h.ty))
              IN Some(T_handle(h.ty,
                               WordAddInt(h.slot, location.offset_slots),
                               packed(location.offset_bytes)))
         ELSE Some(T_handle(h.ty,
                            WordAddInt(h.slot, index * T_SLOTS(h.ty)), FULL))

RECURSIVE T_load(_, _, _, _)
RECURSIVE T_store(_, _, _, _, _)
RECURSIVE T_delete(_, _, _, _)

\* The value of a singleton set: binds a result that is used more than once.
The1(S) == CHOOSE x \in S : TRUE

\* for index in 0..N { T::load(storage, base + loc.offset_slots, packed) }
RECURSIVE load_packed_array(_, _, _, _, _, _, _)
load_packed_array(E, N, st, base_slot, index, data, trace) ==
    IF index >= N THEN [res |-> Ok(data), calls |-> trace]
    ELSE LET loc == calc_element_loc(index, T_BYTES(E))
             slot == WordAddInt(base_slot, loc.offset_slots)
         IN The1({IF got.res.tag # "Ok"
                  THEN [res |-> got.res, calls |-> trace \o got.calls]
                  ELSE load_packed_array(E, N, st, base_slot, index + 1,
                                         Append(data, got.res.val),
                                         trace \o got.calls)
                  : got \in {T_load(E, st, slot, packed(loc.offset_bytes))}})

RECURSIVE load_unpacked_array(_, _, _, _, _, _, _)
load_unpacked_array(E, N, st, base_slot, index, data, trace) ==
    IF index >= N THEN [res |-> Ok(data), calls |-> trace]
    ELSE LET slot == WordAddInt(base_slot, index * T_SLOTS(E))
         IN The1({IF got.res.tag # "Ok"
                  THEN [res |-> got.res, calls |-> trace \o got.calls]
                  ELSE load_unpacked_array(E, N, st, base_slot, index + 1,
                                           Append(data, got.res.val),
                                           trace \o got.calls)
                  : got \in {T_load(E, st, slot, FULL)}})

\* Mutant: each word of a packed array is assembled from zero.
RECURSIVE store_packed_array_from_zero(_, _, _, _, _, _, _)
store_packed_array_from_zero(E, N, values, st, base_slot, index, trace) ==
    IF index >= N THEN [res |-> Ok(Unit), st |-> st, calls |-> trace]
    ELSE LET loc == calc_element_loc(index, T_BYTES(E))
             slot == WordAddInt(base_slot, loc.offset_slots)
         IN The1({IF put.res.tag # "Ok"
                  THEN [res |-> put.res, st |-> put.st,
                        calls |-> trace \o put.calls]
                  ELSE store_packed_array_from_zero(E, N, values, put.st,
                                                    base_slot, index + 1,
                                                    trace \o put.calls)
                  : put \in {T_store(E, values[index + 1],
                                     IF loc.offset_bytes = 0
                                     THEN Store(st, slot, ZeroWord) ELSE st,
                                     slot, packed(loc.offset_bytes))}})

RECURSIVE store_packed_array(_, _, _, _, _, _, _)
store_packed_array(E, N, values, st, base_slot, index, trace) ==
    IF index >= N THEN [res |-> Ok(Unit), st |-> st, calls |-> trace]
    ELSE LET loc == calc_element_loc(index, T_BYTES(E))
             slot == WordAddInt(base_slot, loc.offset_slots)
         IN The1({IF put.res.tag # "Ok"
                  THEN [res |-> put.res, st |-> put.st,
                        calls |-> trace \o put.calls]
                  ELSE store_packed_array(E, N, values, put.st, base_slot,
                                          index + 1, trace \o put.calls)
                  : put \in {T_store(E, values[index + 1], st, slot,
                                     packed(loc.offset_bytes))}})

RECURSIVE store_unpacked_array(_, _, _, _, _, _, _)
store_unpacked_array(E, N, values, st, base_slot, index, trace) ==
    IF index >= N THEN [res |-> Ok(Unit), st |-> st, calls |-> trace]
    ELSE LET slot == WordAddInt(base_slot, index * T_SLOTS(E))
         IN The1({IF put.res.tag # "Ok"
                  THEN [res |-> put.res, st |-> put.st,
                        calls |-> trace \o put.calls]
                  ELSE store_unpacked_array(E, N, values, put.st, base_slot,
                                            index + 1, trace \o put.calls)
                  : put \in {T_store(E, values[index + 1], st, slot, FULL)}})

\* for index in 0..N { T::delete(storage, base + index * T::SLOTS, FULL) }
RECURSIVE delete_unpacked_array(_, _, _, _, _, _)
delete_unpacked_array(E, N, st, base_slot, index, trace) ==
    IF index >= N THEN [res |-> Ok(Unit), st |-> st, calls |-> trace]
    ELSE LET slot == WordAddInt(base_slot, index * T_SLOTS(E))
         IN The1({IF gone.res.tag # "Ok"
                  THEN [res |-> gone.res, st |-> gone.st,
                        calls |-> trace \o gone.calls]
                  ELSE delete_unpacked_array(E, N, gone.st, base_slot,
                                             index + 1, trace \o gone.calls)
                  : gone \in {T_delete(E, st, slot, FULL)}})

Array_load(T, st, base_slot, ctx) ==
    IF T_BYTES(ElemType(T)) <= 16
    THEN load_packed_array(ElemType(T), ArrayLen(T), st, base_slot, 0,
                           <<>>, <<>>)
    ELSE load_unpacked_array(ElemType(T), ArrayLen(T), st, base_slot, 0,
                             <<>>, <<>>)

Array_store(T, values, st, base_slot, ctx) ==
    IF T_BYTES(ElemType(T)) <= 16
    THEN store_packed_array(ElemType(T), ArrayLen(T), values, st, base_slot, 0,
                            <<>>)
    ELSE store_unpacked_array(ElemType(T), ArrayLen(T), values, st,
                              base_slot, 0, <<>>)

\* Mutant: a packed array clears only the slots its elements fill entirely.
Array_delete_floor(T, st, base_slot, ctx) ==
    IF T_BYTES(ElemType(T)) <= 16
    THEN LET slot_count == (ArrayLen(T) * T_BYTES(ElemType(T))) \div 32
             done == ZeroSlots(st, base_slot, slot_count, 0)
         IN [res |-> Ok(Unit), st |-> done.st, calls |-> done.calls]
    ELSE delete_unpacked_array(ElemType(T), ArrayLen(T), st, base_slot, 0,
                               <<>>)

Array_delete(T, st, base_slot, ctx) ==
    IF T_BYTES(ElemType(T)) <= 16
    THEN LET slot_count == calc_packed_slot_count(ArrayLen(T),
                                                  T_BYTES(ElemType(T)))
             done == ZeroSlots(st, base_slot, slot_count, 0)
         IN [res |-> Ok(Unit), st |-> done.st, calls |-> done.calls]
    ELSE delete_unpacked_array(ElemType(T), ArrayLen(T), st, base_slot, 0,
                               <<>>)

\* Storable::load / store / delete of T
T_load(T, st, slot, ctx) ==
    IF IsArray(T) THEN Array_load(T, st, slot, ctx)
    ELSE Storable_load(T.base, st, slot, ctx)

T_store(T, value, st, slot, ctx) ==
    IF IsArray(T) THEN Array_store(T, value, st, slot, ctx)
    ELSE Storable_store(T.base, value, st, slot, ctx)

T_delete(T, st, slot, ctx) ==
    IF IsArray(T) THEN Array_delete(T, st, slot, ctx)
    ELSE Storable_delete(T.base, st, slot, ctx)

ArrayHandler_as_slot(h) ==
    [kind |-> "slot", ty |-> ArrayOf(h.ty, h.n), slot |-> h.slot, ctx |-> FULL]

ArrayHandler_read(h, st) ==
    T_load(ArrayHandler_as_slot(h).ty, st, h.slot, FULL)

ArrayHandler_write(h, st, value) ==
    T_store(ArrayHandler_as_slot(h).ty, value, st, h.slot, FULL)

ArrayHandler_delete(h, st) ==
    T_delete(ArrayHandler_as_slot(h).ty, st, h.slot, FULL)

(***************************************************************************)
(* [T; N] under test: an array handle at slot 7 over an empty backend or   *)
(* one whose slots around the array hold earlier contents.                 *)
(***************************************************************************)
MaxArrayLen == 5

ArrayElemTypes ==
    {Ty("bool"), Ty("u8"), Ty("u64"), Ty("i128"), Ty("address"), Ty("u256"),
     Ty("string"), ArrayOf(Ty("u64"), 3), ArrayOf(Ty("u256"), 2)}

\* A value of T made of the seed: element i of an array takes seed + i.
RECURSIVE SampleValue(_, _)
SampleValue(T, seed) ==
    IF IsArray(T)
    THEN Tup([i \in 1..ArrayLen(T) |-> SampleValue(ElemType(T), seed + i)])
    ELSE IF T.base = "bool" THEN seed % 2 = 1
    ELSE IF T.base \in DynTypes THEN AsciiBytes((seed * 13) % 45)
    ELSE Tup([k \in 1..BYTES(T.base) |-> (seed * 17 + k) % 256])

SampleValues(T) == {SampleValue(T, 1), SampleValue(T, 8)}

PriorSlots ==
    {WordFromInt(6)} \cup {WordAddInt(HandleSlot, k) : k \in 0..(2 * MaxArrayLen + 2)}

PriorBackend == [s \in PriorSlots |-> PatternWord]

ArrayInit ==
    /\ \E E \in ArrayElemTypes, N \in 0..MaxArrayLen :
          handle = ArrayHandler_new(E, N, HandleSlot)
    /\ storage \in {EmptyStorage, PriorBackend}
    /\ pre = storage
    /\ calls = <<>>
    /\ last = NoOp
    /\ written = NothingWritten

ArrayAt ==
    /\ handle.kind = "array"
    /\ \E index \in 0..(MaxArrayLen + 1) :
          last' = [name |-> "at", arg |-> index,
                   res |-> Ok(ArrayHandler_at(handle, index))]
    /\ calls' = <<>>
    /\ pre' = storage
    /\ UNCHANGED <<handle, storage, written>>

\* Each run writes the array once.
ArrayWrite ==
    /\ handle.kind = "array"
    /\ written.state = "none"
    /\ \E v \in SampleValues(ArrayOf(handle.ty, handle.n)) :
          \E r \in {ArrayHandler_write(handle, storage, v)} :
             /\ storage' = r.st
             /\ calls' = r.calls
             /\ last' = [name |-> "write", arg |-> v, res |-> r.res]
             /\ written' = IF r.res.tag = "Ok"
                           THEN [state |-> "value", val |-> v]
                           ELSE written
    /\ pre' = storage
    /\ UNCHANGED handle

ArrayRead ==
    /\ handle.kind = "array"
    /\ \E r \in {ArrayHandler_read(handle, storage)} :
          /\ calls' = r.calls
          /\ last' = [name |-> "read", arg |-> Unit, res |-> r.res]
    /\ pre' = storage
    /\ UNCHANGED <<handle, storage, written>>

ArrayDelete ==
    /\ handle.kind = "array"
    /\ \E r \in {ArrayHandler_delete(handle, storage)} :
          /\ storage' = r.st
          /\ calls' = r.calls
          /\ last' = [name |-> "delete", arg |-> Unit, res |-> r.res]
          /\ written' = IF r.res.tag = "Ok"
                        THEN [state |-> "deleted", val |-> Unit]
                        ELSE written
    /\ pre' = storage
    /\ UNCHANGED handle

ArrayNext == ArrayAt \/ ArrayWrite \/ ArrayRead \/ ArrayDelete

SpecArray == ArrayInit /\ [][ArrayNext]_vars

(***************************************************************************)
(* Properties of the array handle.                                         *)
(***************************************************************************)
\* C13: at(i) of [T; N] is absent iff i >= N; for i < N it is T's handle at
\* (base + floor(i * BYTES(T) / 32), Packed((i * BYTES(T)) mod 32)) when
\* BYTES(T) <= 16 and at (base + i * SLOTS(T), FULL) otherwise; for [u64; 5]
\* at base 7, at(2) is (7, 16) and at(4) is (8, 0).
C13_ArrayAddressing ==
    (handle.kind = "array" /\ last.name = "at") =>
        LET i == last.arg
            b == T_BYTES(handle.ty)
            r == last.res.val
        IN /\ last.res.tag = "Ok"
           /\ calls = <<>>
           /\ storage = pre
           /\ r.some = (i < handle.n)
           /\ (i < handle.n /\ b <= 16) =>
                 /\ r.v.slot = WordAddInt(handle.slot, (i * b) \div 32)
                 /\ r.v.ctx = (i * b) % 32
                 /\ r.v.kind = "slot"
                 /\ r.v.ty = handle.ty.base
           /\ (i < handle.n /\ b > 16) =>
                 /\ r.v.slot = WordAddInt(handle.slot, i * T_SLOTS(handle.ty))
                 /\ r.v.ctx = FULL
           /\ (handle.ty = Ty("u64") /\ handle.n = 5 /\ i = 2) =>
                 r.v.slot = WordFromInt(7) /\ r.v.ctx = 16
           /\ (handle.ty = Ty("u64") /\ handle.n = 5 /\ i = 4) =>
                 r.v.slot = WordFromInt(8) /\ r.v.ctx = 0

C13_Witness ==
    /\ handle.kind = "array"
    /\ handle.ty = Ty("u64")
    /\ handle.n = 5
    /\ last.name = "at"
    /\ last.arg = 4
    /\ last.res.val.some
    /\ last.res.val.v.slot = WordFromInt(8)
    /\ last.res.val.v.ctx = 0

\* The slots [T; N] owns: base .. base + SLOTS([T; N]) - 1.
OwnedCount ==
    IF T_BYTES(handle.ty) <= 16
    THEN (handle.n * T_BYTES(handle.ty) + 31) \div 32
    ELSE handle.n * T_SLOTS(handle.ty)

OwnedSlots == {WordAddInt(handle.slot, k) : k \in 0..(OwnedCount - 1)}

OwnedSlotsCleared ==
    /\ last.res.tag = "Ok"
    /\ \A s \in OwnedSlots : Load(storage, s) = ZeroWord /\ s \in StoredSlots

\* The data area the byte string at slot e owned before the operation.
ElementDataSlots(e) ==
    LET w == Load(pre, e)
        length == calc_string_length(w, is_long_string(w))
    IN IF is_long_string(w) /\ length.tag = "Ok"
       THEN {WordAddInt(calc_data_slot(e), j) :
                j \in 0..(calc_chunks(length.val) - 1)}
       ELSE {}

DynamicData ==
    IF handle.ty.base \in DynTypes
    THEN UNION {ElementDataSlots(e) : e \in OwnedSlots}
    ELSE {}

vec_calc_data_slot(len_slot) == keccak256(len_slot)

\* packing::PackedSlot: a one-word backend that ignores the slot.
PackedSlot(word) == [s \in {ZeroWord} |-> word]

Min(a, b) == IF a < b THEN a ELSE b

\* for offset in 0..elements_in_slot { T::load(&slot_packed, ZERO, packed) }
RECURSIVE load_slot_elements(_, _, _, _, _, _)
load_slot_elements(E, slot_packed, byte_count, elements_in_slot, offset, data) ==
    IF offset >= elements_in_slot THEN Ok(data)
    ELSE The1({IF got.res.tag # "Ok" THEN got.res
               ELSE load_slot_elements(E, slot_packed, byte_count,
                                       elements_in_slot, offset + 1,
                                       Append(data, got.res.val))
               : got \in {T_load(E, slot_packed, ZeroWord,
                                 packed(offset * byte_count))}})

RECURSIVE load_packed_elements(_, _, _, _, _, _, _, _, _)
load_packed_elements(E, st, data_start, length, byte_count, slot_idx, current_index, elements, trace) ==
    IF slot_idx >= calc_packed_slot_count(length, byte_count)
    THEN [res |-> Ok(elements), calls |-> trace]
    ELSE LET slot == WordAddInt(data_start, slot_idx)
             slot_value == Load(st, slot)
             elements_in_slot ==
                 Min((length - current_index) * byte_count, 32) \div byte_count
         IN The1({IF got.tag # "Ok"
                  THEN [res |-> got, calls |-> Append(trace, LoadCall(st, slot))]
                  ELSE load_packed_elements(
                           E, st, data_start, length, byte_count, slot_idx + 1,
                           current_index + elements_in_slot,
                           elements \o got.val,
                           Append(trace, LoadCall(st, slot)))
                  : got \in {load_slot_elements(E, PackedSlot(slot_value),
                                                byte_count, elements_in_slot,
                                                0, <<>>)}})

RECURSIVE load_unpacked_elements(_, _, _, _, _, _, _)
load_unpacked_elements(E, st, data_start, length, index, elements, trace) ==
    IF index >= length THEN [res |-> Ok(elements), calls |-> trace]
    ELSE LET slot == WordAddInt(data_start, index * T_SLOTS(E))
         IN The1({IF got.res.tag # "Ok"
                  THEN [res |-> got.res, calls |-> trace \o got.calls]
                  ELSE load_unpacked_elements(E, st, data_start, length,
                                              index + 1,
                                              Append(elements, got.res.val),
                                              trace \o got.calls)
                  : got \in {T_load(E, st, slot, FULL)}})

\* Mutant: the elements of a data word are laid out from its high end down.
RECURSIVE build_packed_slot_reversed(_, _, _, _, _, _)
build_packed_slot_reversed(E, elements, byte_count, k, slot_value, current_offset) ==
    IF k > Len(elements) THEN Ok(slot_value[ZeroWord])
    ELSE The1({IF put.res.tag # "Ok" THEN put.res
               ELSE build_packed_slot_reversed(E, elements, byte_count, k + 1,
                                               put.st,
                                               current_offset + byte_count)
               : put \in {T_store(E, elements[k], slot_value, ZeroWord,
                                  packed(32 - byte_count - current_offset))}})

\* for elem in elements { elem.store(&mut slot_value, ZERO, packed) }
RECURSIVE build_packed_slot(_, _, _, _, _, _)
build_packed_slot(E, elements, byte_count, k, slot_value, current_offset) ==
    IF k > Len(elements) THEN Ok(slot_value[ZeroWord])
    ELSE The1({IF put.res.tag # "Ok" THEN put.res
               ELSE build_packed_slot(E, elements, byte_count, k + 1, put.st,
                                      current_offset + byte_count)
               : put \in {T_store(E, elements[k], slot_value, ZeroWord,
                                  packed(current_offset))}})

RECURSIVE store_packed_elements(_, _, _, _, _, _, _)
store_packed_elements(E, elements, st, data_start, byte_count, slot_idx, trace) ==
    IF slot_idx >= calc_packed_slot_count(Len(elements), byte_count)
    THEN [res |-> Ok(Unit), st |-> st, calls |-> trace]
    ELSE LET start_elem == slot_idx * (32 \div byte_count)
             end_elem == Min(start_elem + (32 \div byte_count), Len(elements))
             slot == WordAddInt(data_start, slot_idx)
         IN The1({IF slot_value.tag # "Ok"
                  THEN [res |-> slot_value, st |-> st, calls |-> trace]
                  ELSE store_packed_elements(
                           E, elements, Store(st, slot, slot_value.val),
                           data_start, byte_count, slot_idx + 1,
                           Append(trace, StoreCall(slot, slot_value.val)))
                  : slot_value \in
                       {build_packed_slot(
                            E, SubSeq(elements, start_elem + 1, end_elem),
                            byte_count, 1, PackedSlot(ZeroWord), 0)}})

RECURSIVE store_unpacked_elements(_, _, _, _, _, _)
store_unpacked_elements(E, elements, st, data_start, index, trace) ==
    IF index >= Len(elements)
    THEN [res |-> Ok(Unit), st |-> st, calls |-> trace]
    ELSE LET slot == WordAddInt(data_start, index * T_SLOTS(E))
         IN The1({IF put.res.tag # "Ok"
                  THEN [res |-> put.res, st |-> put.st,
                        calls |-> trace \o put.calls]
                  ELSE store_unpacked_elements(E, elements, put.st, data_start,
                                               index + 1, trace \o put.calls)
                  : put \in {T_store(E, elements[index + 1], st, slot, FULL)}})

\* for elem_idx in 0..length { T::delete(storage, data_start + .., FULL) }
RECURSIVE delete_unpacked_elements(_, _, _, _, _, _)
delete_unpacked_elements(E, st, data_start, length, elem_idx, trace) ==
    IF elem_idx >= length THEN [res |-> Ok(Unit), st |-> st, calls |-> trace]
    ELSE LET elem_slot == WordAddInt(data_start, elem_idx * T_SLOTS(E))
         IN The1({IF gone.res.tag # "Ok"
                  THEN [res |-> gone.res, st |-> gone.st,
                        calls |-> trace \o gone.calls]
                  ELSE delete_unpacked_elements(E, gone.st, data_start, length,
                                                elem_idx + 1,
                                                trace \o gone.calls)
                  : gone \in {T_delete(E, st, elem_slot, FULL)}})

\* Mutant: a packed vector is read up to the end of its last data word.
Vec_load_whole_words(E, st, len_slot, ctx) ==
    LET length_value == Load(st, len_slot)
        first == <<LoadCall(st, len_slot)>>
    IN IF ~FitsUsize(length_value)
       THEN [res |-> Panic("usize overflow"), calls |-> first]
       ELSE LET stored == WordLow24(length_value)
                data_start == vec_calc_data_slot(len_slot)
            IN IF stored = 0 THEN [res |-> Ok(<<>>), calls |-> first]
               ELSE IF T_BYTES(E) <= 16
               THEN load_packed_elements(
                        E, st, data_start,
                        calc_packed_slot_count(stored, T_BYTES(E))
                           * (32 \div T_BYTES(E)),
                        T_BYTES(E), 0, 0, <<>>, first)
               ELSE load_unpacked_elements(E, st, data_start, stored, 0, <<>>,
                                           first)

Vec_load(E, st, len_slot, ctx) ==
    LET length_value == Load(st, len_slot)
        first == <<LoadCall(st, len_slot)>>
    IN IF ~FitsUsize(length_value)
       THEN [res |-> Panic("usize overflow"), calls |-> first]
       ELSE LET length == WordLow24(length_value)
                data_start == vec_calc_data_slot(len_slot)
            IN IF length = 0 THEN [res |-> Ok(<<>>), calls |-> first]
               ELSE IF T_BYTES(E) <= 16
               THEN load_packed_elements(E, st, data_start, length, T_BYTES(E),
                                         0, 0, <<>>, first)
               ELSE load_unpacked_elements(E, st, data_start, length, 0, <<>>,
                                           first)

\* Mutant: the length goes to len_slot after the data slots.
Vec_store_length_last(E, value, st, len_slot, ctx) ==
    LET len_word == WordFromInt(Len(value))
        data_start == vec_calc_data_slot(len_slot)
    IN The1({IF done.res.tag # "Ok" THEN done
             ELSE [res |-> Ok(Unit),
                   st |-> Store(done.st, len_slot, len_word),
                   calls |-> Append(done.calls, StoreCall(len_slot, len_word))]
             : done \in
                  {IF Len(value) = 0
                   THEN [res |-> Ok(Unit), st |-> st, calls |-> <<>>]
                   ELSE IF T_BYTES(E) <= 16
                   THEN store_packed_elements(E, value, st, data_start,
                                              T_BYTES(E), 0, <<>>)
                   ELSE store_unpacked_elements(E, value, st, data_start, 0,
                                                <<>>)}})

Vec_store(E, value, st, len_slot, ctx) ==
    LET len_word == WordFromInt(Len(value))
        first == <<StoreCall(len_slot, len_word)>>
        st1 == Store(st, len_slot, len_word)
        data_start == vec_calc_data_slot(len_slot)
    IN IF Len(value) = 0
       THEN [res |-> Ok(Unit), st |-> st1, calls |-> first]
       ELSE IF T_BYTES(E) <= 16
       THEN store_packed_elements(E, value, st1, data_start, T_BYTES(E), 0,
                                  first)
       ELSE store_unpacked_elements(E, value, st1, data_start, 0, first)

\* Mutant: the data area is cleared four elements past the stored length.
Vec_delete_scrubbing(E, st, len_slot, ctx) ==
    LET length_value == Load(st, len_slot)
        first == <<LoadCall(st, len_slot)>>
    IN IF ~FitsUsize(length_value)
       THEN [res |-> Panic("usize overflow"), st |-> st, calls |-> first]
       ELSE LET length == WordLow24(length_value) + 4
                st1 == Store(st, len_slot, ZeroWord)
                trace == Append(first, StoreCall(len_slot, ZeroWord))
                data_start == vec_calc_data_slot(len_slot)
            IN IF T_BYTES(E) <= 16
               THEN LET slot_count == calc_packed_slot_count(length, T_BYTES(E))
                        done == ZeroSlots(st1, data_start, slot_count, 0)
                    IN [res |-> Ok(Unit), st |-> done.st,
                        calls |-> trace \o done.calls]
               ELSE delete_unpacked_elements(E, st1, data_start, length, 0,
                                             trace)

\* Mutant: only the length word is cleared.
Vec_delete_length_only(E, st, len_slot, ctx) ==
    LET length_value == Load(st, len_slot)
        first == <<LoadCall(st, len_slot)>>
    IN IF ~FitsUsize(length_value)
       THEN [res |-> Panic("usize overflow"), st |-> st, calls |-> first]
       ELSE [res |-> Ok(Unit), st |-> Store(st, len_slot, ZeroWord),
             calls |-> Append(first, StoreCall(len_slot, ZeroWord))]

Vec_delete(E, st, len_slot, ctx) ==
    LET length_value == Load(st, len_slot)
        first == <<LoadCall(st, len_slot)>>
    IN IF ~FitsUsize(length_value)
       THEN [res |-> Panic("usize overflow"), st |-> st, calls |-> first]
       ELSE LET length == WordLow24(length_value)
                st1 == Store(st, len_slot, ZeroWord)
                trace == Append(first, StoreCall(len_slot, ZeroWord))
                data_start == vec_calc_data_slot(len_slot)
            IN IF length = 0
               THEN [res |-> Ok(Unit), st |-> st1, calls |-> trace]
               ELSE IF T_BYTES(E) <= 16
               THEN LET slot_count == calc_packed_slot_count(length, T_BYTES(E))
                        done == ZeroSlots(st1, data_start, slot_count, 0)
                    IN [res |-> Ok(Unit), st |-> done.st,
                        calls |-> trace \o done.calls]
               ELSE delete_unpacked_elements(E, st1, data_start, length, 0,
                                             trace)

VecHandler_new(E, len_slot) ==
    [kind |-> "vec", ty |-> E, slot |-> len_slot, ctx |-> FULL]

VecHandler_len_slot(h) == h.slot

VecHandler_data_slot(h) == vec_calc_data_slot(h.slot)

VecHandler_read(h, st) == Vec_load(h.ty, st, h.slot, FULL)

VecHandler_write(h, st, value) == Vec_store(h.ty, value, st, h.slot, FULL)

VecHandler_delete(h, st) == Vec_delete(h.ty, st, h.slot, FULL)

\* Ok(length), or the panic of to::<usize>().
VecHandler_len(h, st) ==
    LET got == Slot_read(Slot_new("u256", h.slot), st)
    IN IF got.res.tag # "Ok" THEN got
       ELSE IF ~FitsUsize(got.res.val)
       THEN [res |-> Panic("usize overflow"), calls |-> got.calls]
       ELSE [res |-> Ok(WordLow24(got.res.val)), calls |-> got.calls]

VecHandler_is_empty(h, st) ==
    LET got == VecHandler_len(h, st)
    IN IF got.res.tag # "Ok" THEN got
       ELSE [res |-> Ok(got.res.val = 0), calls |-> got.calls]

\* Mutant: packed elements are addressed one per slot.
VecHandler_at_unchecked_unpacked(h, index) ==
    T_handle(h.ty, WordAddInt(VecHandler_data_slot(h), index * T_SLOTS(h.ty)),
             IF T_BYTES(h.ty) <= 16 THEN packed(0) ELSE FULL)

VecHandler_at_unchecked(h, index) ==
    LET data_start == VecHandler_data_slot(h)
    IN IF T_BYTES(h.ty) <= 16
       THEN LET location == calc_element_loc(index, T_BYTES(h.ty))
            IN T_handle(h.ty, WordAddInt(data_start, location.offset_slots),
                        packed(location.offset_bytes))
       ELSE T_handle(h.ty, WordAddInt(data_start, index * T_SLOTS(h.ty)), FULL)

\* Mutant: the index one past the end is let through.
VecHandler_at_inclusive(h, st, index) ==
    LET length == VecHandler_len(h, st)
    IN IF length.res.tag # "Ok" THEN length
       ELSE IF index > length.res.val
       THEN [res |-> Ok(None), calls |-> length.calls]
       ELSE [res |-> Ok(Some(VecHandler_at_unchecked(h, index))),
             calls |-> length.calls]

VecHandler_at(h, st, index) ==
    LET length == VecHandler_len(h, st)
    IN IF length.res.tag # "Ok" THEN length
       ELSE IF index >= length.res.val
       THEN [res |-> Ok(None), calls |-> length.calls]
       ELSE [res |-> Ok(Some(VecHandler_at_unchecked(h, index))),
             calls |-> length.calls]

\* Handler::read of the handle T::handle returned.
Handler_read(h, st) ==
    CASE h.kind = "bytes" -> Bytes_read(h, st)
      [] h.kind = "array" -> ArrayHandler_read(h, st)
      [] h.kind = "vec" -> VecHandler_read(h, st)
      [] OTHER -> Slot_read(h, st)

(***************************************************************************)
(* Vec<T> under test: a vector handle at slot 7 over an empty backend, a   *)
(* backend holding only a length word, or one holding earlier data.        *)
(***************************************************************************)
MaxVecLen == 5

VecElemTypes ==
    {Ty("bool"), Ty("u8"), Ty("u64"), Ty("i128"), Ty("address"), Ty("u256"),
     Ty("string"), ArrayOf(Ty("u256"), 2)}

VecValues(E) == {SampleValue(ArrayOf(E, n), 1) : n \in 0..MaxVecLen}

VecDataSlot(j) == WordAddInt(vec_calc_data_slot(HandleSlot), j)

\* Length words 3 (data absent), 2^256 - 1 and 0x1112..30 (neither fits
\* usize), and 2 over a data area with earlier contents.
VecBackends ==
    {EmptyStorage}
    \cup {[s \in {HandleSlot} |-> w] :
             w \in {WordFromInt(3), U256_MAX, PatternWord}}
    \cup {[s \in {HandleSlot, VecDataSlot(0), VecDataSlot(1)} |->
              IF s = HandleSlot THEN WordFromInt(2) ELSE PatternWord]}

VecInit ==
    /\ \E E \in VecElemTypes : handle = VecHandler_new(E, HandleSlot)
    /\ storage \in VecBackends
    /\ pre = storage
    /\ calls = <<>>
    /\ last = NoOp
    /\ written = NothingWritten

\* Each run writes the vector once.
VecWrite ==
    /\ handle.kind = "vec"
    /\ written.state = "none"
    /\ \E v \in VecValues(handle.ty) :
          \E r \in {VecHandler_write(handle, storage, v)} :
             /\ storage' = r.st
             /\ calls' = r.calls
             /\ last' = [name |-> "write", arg |-> v, res |-> r.res]
             /\ written' = IF r.res.tag = "Ok"
                           THEN [state |-> "value", val |-> v]
                           ELSE written
    /\ pre' = storage
    /\ UNCHANGED handle

VecRead ==
    /\ handle.kind = "vec"
    /\ \E r \in {VecHandler_read(handle, storage)} :
          /\ calls' = r.calls
          /\ last' = [name |-> "read", arg |-> Unit, res |-> r.res]
    /\ pre' = storage
    /\ UNCHANGED <<handle, storage, written>>

VecDelete ==
    /\ handle.kind = "vec"
    /\ \E r \in {VecHandler_delete(handle, storage)} :
          /\ storage' = r.st
          /\ calls' = r.calls
          /\ last' = [name |-> "delete", arg |-> Unit, res |-> r.res]
          /\ written' = IF r.res.tag = "Ok"
                        THEN [state |-> "deleted", val |-> Unit]
                        ELSE written
    /\ pre' = storage
    /\ UNCHANGED handle

VecLen ==
    /\ handle.kind = "vec"
    /\ \E r \in {VecHandler_len(handle, storage)} :
          /\ calls' = r.calls
          /\ last' = [name |-> "len", arg |-> Unit, res |-> r.res]
    /\ pre' = storage
    /\ UNCHANGED <<handle, storage, written>>

VecIsEmpty ==
    /\ handle.kind = "vec"
    /\ \E r \in {VecHandler_is_empty(handle, storage)} :
          /\ calls' = r.calls
          /\ last' = [name |-> "is_empty", arg |-> Unit, res |-> r.res]
    /\ pre' = storage
    /\ UNCHANGED <<handle, storage, written>>

VecAtUnchecked ==
    /\ handle.kind = "vec"
    /\ \E index \in 0..(MaxVecLen + 1) :
          last' = [name |-> "at_unchecked", arg |-> index,
                   res |-> Ok(VecHandler_at_unchecked(handle, index))]
    /\ calls' = <<>>
    /\ pre' = storage
    /\ UNCHANGED <<handle, storage, written>>

VecAt ==
    /\ handle.kind = "vec"
    /\ \E index \in 0..(MaxVecLen + 1) :
          \E r \in {VecHandler_at(handle, storage, index)} :
             /\ calls' = r.calls
             /\ last' = [name |-> "at", arg |-> index, res |-> r.res]
    /\ pre' = storage
    /\ UNCHANGED <<handle, storage, written>>

VecNext ==
    \/ VecWrite
    \/ VecRead
    \/ VecDelete
    \/ VecLen
    \/ VecIsEmpty
    \/ VecAtUnchecked
    \/ VecAt

SpecVec == VecInit /\ [][VecNext]_vars

(***************************************************************************)
(* Properties of the vector handle.                                        *)
(***************************************************************************)
\* C11: the data area of a vector at len_slot starts at H(be32(len_slot)),
\* and element i is T's handle at (data_base + floor(i * BYTES(T) / 32),
\* Packed((i * BYTES(T)) mod 32)) when BYTES(T) <= 16 and at
\* (data_base + i * SLOTS(T), FULL) otherwise: the rule of a fixed array
\* whose base is data_base.
C11_VecAddressing ==
    (handle.kind = "vec" /\ last.name = "at_unchecked") =>
        \E data_base \in {keccak256(handle.slot)} :
           LET i == last.arg
               b == T_BYTES(handle.ty)
               r == last.res.val
           IN /\ VecHandler_data_slot(handle) = data_base
              /\ calls = <<>>
              /\ storage = pre
              /\ b <= 16 =>
                    /\ r.slot = WordAddInt(data_base, (i * b) \div 32)
                    /\ r.ctx = (i * b) % 32
                    /\ r.kind = "slot"
                    /\ r.ty = handle.ty.base
              /\ b > 16 =>
                    /\ r.slot = WordAddInt(data_base, i * T_SLOTS(handle.ty))
                    /\ r.ctx = FULL
              /\ Some(r) = ArrayHandler_at(
                               ArrayHandler_new(handle.ty, i + 1, data_base), i)

C11_Witness ==
    /\ handle.kind = "vec"
    /\ handle.ty = Ty("u64")
    /\ last.name = "at_unchecked"
    /\ last.arg = 5
    /\ last.res.val.slot = WordAddInt(keccak256(handle.slot), 1)
    /\ last.res.val.ctx = 8

\* i < the number the word w denotes
IndexBelowWord(i, w) == ~IsSmallWord(w) \/ i < WordLow24(w)

\* C12: at(i) reads the length word at len_slot and never stores; it is
\* absent iff i >= that length, and for i < length it is the handle of
\* at_unchecked(i).
C12_VecBoundsCheck ==
    (handle.kind = "vec" /\ last.name = "at") =>
        /\ calls = <<LoadCall(pre, handle.slot)>>
        /\ storage = pre
        /\ last.res =
              IF IndexBelowWord(last.arg, Load(pre, handle.slot))
              THEN Ok(Some(VecHandler_at_unchecked(handle, last.arg)))
              ELSE Ok(None)

\* The bytes of the data word at data_base + k that element i of v occupies.
ElementBytes(word, i, b) ==
    SubSeq(word, WordBytes - ((i * b) % 32) - b + 1, WordBytes - ((i * b) % 32))

\* A primitive value as its BYTES big-endian bytes.
ValueBytes(E, v) ==
    IF E.base = "bool" THEN (IF v THEN <<1>> ELSE <<0>>) ELSE v

\* Byte p (1 = most significant) of data word k is covered by an element.
Covered(k, p, n, b) ==
    \E i \in 0..(n - 1) :
        /\ (i * b) \div 32 = k
        /\ InWindow(p, (i * b) % 32, b)

\* C14: a whole write of v on an empty backend stores Len(v) at len_slot and
\* element i at its vector address (packed T: lower index at lower byte
\* offset, bytes of the last data word beyond the elements zero); a whole
\* read then returns v and the element handle at(i) reads v[i].
C14_VecWholeWriteRead ==
    (handle.kind = "vec" /\ last.name = "write" /\ pre = EmptyStorage) =>
        \E v \in {last.arg}, data_base \in {keccak256(handle.slot)} :
           LET n == Len(v)
               E == handle.ty
               b == T_BYTES(E)
               words == IF b <= 16 THEN (n * b + 31) \div 32 ELSE n * T_SLOTS(E)
           IN /\ last.res = Ok(Unit)
              /\ Load(storage, handle.slot) = WordFromInt(n)
              /\ b <= 16 =>
                    /\ DOMAIN storage =
                          {handle.slot}
                          \cup {WordAddInt(data_base, k) : k \in 0..(words - 1)}
                    /\ \A i \in 0..(n - 1) :
                          ElementBytes(
                              Load(storage,
                                   WordAddInt(data_base, (i * b) \div 32)),
                              i, b) = ValueBytes(E, v[i + 1])
                    /\ \A k \in 0..(words - 1), p \in 1..WordBytes :
                          ~Covered(k, p, n, b) =>
                             Load(storage, WordAddInt(data_base, k))[p] = 0
              /\ (b > 16 /\ E.base = "u256" /\ ~IsArray(E)) =>
                    \A i \in 0..(n - 1) :
                       Load(storage, WordAddInt(data_base, i)) = v[i + 1]
              /\ VecHandler_read(handle, storage).res = Ok(v)
              /\ \A i \in 0..(n - 1) :
                    \E at \in {VecHandler_at(handle, storage, i).res} :
                       /\ at.tag = "Ok"
                       /\ at.val.some
                       /\ Handler_read(at.val.v, storage).res = Ok(v[i + 1])

C14_Witness ==
    /\ handle.kind = "vec"
    /\ handle.ty = Ty("u64")
    /\ last.name = "write"
    /\ pre = EmptyStorage
    /\ Len(last.arg) = 5
    /\ Load(storage, handle.slot) = WordFromInt(5)
    /\ VecDataSlot(1) \in DOMAIN storage

(***************************************************************************)
(* The dynamic containers (Vec<T>, Bytes, String) over an empty backend.   *)
(***************************************************************************)
DynInit ==
    /\ \/ \E E \in VecElemTypes : handle = VecHandler_new(E, HandleSlot)
       \/ \E ty \in DynTypes : handle = Bytes_new(ty, HandleSlot)
    /\ storage = EmptyStorage
    /\ pre = storage
    /\ calls = <<>>
    /\ last = NoOp
    /\ written = NothingWritten

DynNext == VecNext \/ BytesNext

SpecDyn == DynInit /\ [][DynNext]_vars

\* C15: a delete of a vector or byte string that was written on an empty
\* backend leaves the length/base slot and every data slot the write stored
\* at zero: the backend is all-zero again.
C15_DynDeleteClearsAll ==
    last.name = "delete" =>
        /\ last.res = Ok(Unit)
        /\ DOMAIN pre \subseteq DOMAIN storage
        /\ \A s \in DOMAIN storage : storage[s] = ZeroWord

C15_Witness ==
    /\ handle.kind = "vec"
    /\ handle.ty = Ty("string")
    /\ last.name = "delete"
    /\ Cardinality(DOMAIN pre) >= 8
    /\ \E s \in DOMAIN pre : pre[s] # ZeroWord
    /\ \A s \in DOMAIN storage : storage[s] = ZeroWord

(***************************************************************************)
(* Slot<bool> under test: a boolean handle in FULL or Packed(o) context    *)
(* over words whose low byte, whose upper bytes, or both are set.          *)
(***************************************************************************)
BoolWords ==
    {ZeroWord, U256_MAX, PatternWord, WordFromInt(256), WordFromInt(257)}
    \cup {ShlBytes(WordFromInt(n), o) : n \in {1, 2, 255}, o \in {0, 1, 31}}

BoolInit ==
    /\ \E ctx \in {FULL} \cup Offsets :
          handle = Slot_new_with_ctx("bool", HandleSlot, packed(ctx))
    /\ storage \in {EmptyStorage} \cup {BackendWith(w) : w \in BoolWords}
    /\ pre = storage
    /\ calls = <<>>
    /\ last = NoOp
    /\ written = NothingWritten

SpecBool == BoolInit /\ [][SlotNext]_vars

\* The value a bool handle's slot holds: the whole word in FULL context, the
\* one-byte window in Packed(o) context.
StoredBoolValue ==
    IF handle.ctx = FULL THEN Load(pre, handle.slot)
    ELSE ZeroExtend(<<Load(pre, handle.slot)[WordBytes - handle.ctx]>>)

\* C17: a bool read yields false for a stored 0, true for a stored 1 and
\* InvalidBool for any other stored value, and leaves the backend unchanged.
C17_BoolDecode ==
    (handle.kind = "slot" /\ handle.ty = "bool" /\ last.name = "read") =>
        /\ storage = pre
        /\ last.res = IF StoredBoolValue = ZeroWord THEN Ok(FALSE)
                      ELSE IF StoredBoolValue = WordFromInt(1) THEN Ok(TRUE)
                      ELSE Err("InvalidBool")

(***************************************************************************)
(* The StorableType constants under test: the primitive family, Bytes,     *)
(* String, Vec<T>, Mapping<K, V> and the fixed arrays nested over them.    *)
(***************************************************************************)
MaxDim == 3

MaxNesting == 2

BaseTypes == PrimTypes \cup DynTypes \cup {"vec", "mapping"}

\* LAYOUT, SLOTS, BYTES, IS_PACKABLE and IS_DYNAMIC of T
StorableType_consts(T) ==
    [layout |-> T_LAYOUT(T),
     slots |-> T_SLOTS(T),
     bytes |-> T_BYTES(T),
     is_packable |-> T_IS_PACKABLE(T),
     is_dynamic |-> T_IS_DYNAMIC(T)]

TypeInit ==
    /\ \E base \in BaseTypes : handle = [kind |-> "type", ty |-> Ty(base)]
    /\ storage = EmptyStorage
    /\ pre = storage
    /\ calls = <<>>
    /\ last = NoOp
    /\ written = NothingWritten

\* The type [T; N] over the type at hand (T: Storable, which a mapping is
\* not).
TypeArray ==
    /\ handle.kind = "type"
    /\ handle.ty.base # "mapping"
    /\ Len(handle.ty.dims) < MaxNesting
    /\ \E N \in 0..MaxDim : handle' = [handle EXCEPT !.ty = ArrayOf(@, N)]
    /\ last' = NoOp
    /\ UNCHANGED <<storage, pre, calls, written>>

TypeConstants ==
    /\ handle.kind = "type"
    /\ last' = [name |-> "constants", arg |-> handle.ty,
                res |-> Ok(StorableType_consts(handle.ty))]
    /\ UNCHANGED <<handle, storage, pre, calls, written>>

TypeNext == TypeArray \/ TypeConstants

SpecLayout == TypeInit /\ [][TypeNext]_vars

\* C18: IS_PACKABLE is true exactly for a layout Bytes(n) with n < 32; the
\* 256-bit word, arrays, vectors, byte strings and mappings are not packable.
C18_Packability ==
    (handle.kind = "type" /\ last.name = "constants") =>
        LET c == last.res.val
        IN c.is_packable = (c.layout.kind = "Bytes" /\ c.layout.n < 32)

\* C19: every layout is Bytes(n) with 1 <= n <= 32 (SLOTS 1, BYTES n) or
\* Slots(k) with k >= 1 (SLOTS k, BYTES 32k), and [T; N] has
\* Slots(ceil(N * BYTES(T) / 32)) when BYTES(T) <= 16 and Slots(N * SLOTS(T))
\* otherwise.
C19_LayoutWellFormed ==
    (handle.kind = "type" /\ last.name = "constants") =>
        LET c == last.res.val
            T == last.arg
        IN /\ \/ /\ c.layout.kind = "Bytes"
                 /\ c.layout.n >= 1 /\ c.layout.n <= 32
                 /\ c.slots = 1
                 /\ c.bytes = c.layout.n
              \/ /\ c.layout.kind = "Slots"
                 /\ c.layout.n >= 1
                 /\ c.slots = c.layout.n
                 /\ c.bytes = 32 * c.layout.n
           /\ IsArray(T) =>
                 LET e == StorableType_consts(ElemType(T))
                     N == ArrayLen(T)
                 IN c.layout =
                       IF e.bytes <= 16
                       THEN LayoutSlots((N * e.bytes + 31) \div 32)
                       ELSE LayoutSlots(N * e.slots)

(***************************************************************************)
(* runtime_revm.rs: RevmStorageProvider.  The EVM internals behind it are  *)
(* outside the repository: persistent and transient storage are maps from  *)
(* <<address, slot>> to a word (absent = zero), and the cost of an access  *)
(* (which depends on is_cold and on the journal) is an input of the call.  *)
(* The provider keeps a record of the storage accesses made on it.         *)
(***************************************************************************)
\* Record an access in the provider's access log.
Accessed(p, name, address, slot) ==
    [p EXCEPT !.accesses = Append(@, <<name, address, slot>>)]

WARM_STORAGE_READ_COST == 100

AccountLoad(map, address, slot) ==
    IF <<address, slot>> \in DOMAIN map THEN map[<<address, slot>>]
    ELSE ZeroWord

AccountStore(map, address, slot, value) ==
    [k \in (DOMAIN map) \cup {<<address, slot>>} |->
        IF k = <<address, slot>> THEN value ELSE map[k]]

\* load_account then touch_account
ensure_loaded_account(p, account) ==
    [p EXCEPT !.touched = @ \cup {account}]

\* Ok with the gas deducted, or OutOfGas with the counter unchanged.
charge_gas(p, gas_cost) ==
    IF p.gas_remaining < gas_cost THEN [res |-> Err("OutOfGas"), p |-> p]
    ELSE [res |-> Ok(Unit),
          p |-> [p EXCEPT !.gas_remaining = @ - gas_cost]]

\* An i64 is <<a, b, c>> standing for a * 2^60 + b * 2^30 + c with
\* a \in -8..7 and b, c \in 0..2^30-1.
Limb == 2^30

I64(n) == IF n >= 0 THEN <<0, 0, n>> ELSE <<-1, Limb - 1, Limb + n>>

I64_MAX == <<7, Limb - 1, Limb - 1>>

I64_MIN == <<-8, 0, 0>>

\* The exact sum, its top limb in -16..15.
I64_sum(x, y) ==
    LET c == x[3] + y[3]
        b == x[2] + y[2] + (c \div Limb)
        a == x[1] + y[1] + (b \div Limb)
    IN <<a, b % Limb, c % Limb>>

\* i64::saturating_add
saturating_add(x, y) ==
    LET sum == I64_sum(x, y)
    IN IF sum[1] > 7 THEN I64_MAX
       ELSE IF sum[1] < -8 THEN I64_MIN
       ELSE sum

\* Mutant: the refund counter wraps around at the i64 bounds.
refund_gas_wrapping(p, gas) ==
    LET sum == I64_sum(p.gas_refunded, gas)
    IN [p EXCEPT !.gas_refunded = <<((sum[1] + 8) % 16) - 8, sum[2], sum[3]>>]

refund_gas(p, gas) ==
    [p EXCEPT !.gas_refunded = saturating_add(@, gas)]

sload(p, address, slot, gas_cost) ==
    LET p1 == ensure_loaded_account(Accessed(p, "sload", address, slot), address)
        val == AccountLoad(p1.persistent, address, slot)
        paid == charge_gas(p1, gas_cost)
    IN IF paid.res.tag # "Ok" THEN paid
       ELSE [res |-> Ok(val), p |-> paid.p]

sstore(p, address, slot, value, gas_cost, refund) ==
    LET p1 == ensure_loaded_account(Accessed(p, "sstore", address, slot),
                                    address)
        p2 == [p1 EXCEPT !.persistent = AccountStore(@, address, slot, value)]
        paid == charge_gas(p2, gas_cost)
    IN IF paid.res.tag # "Ok" THEN paid
       ELSE [res |-> Ok(Unit), p |-> refund_gas(paid.p, refund)]

tload(p, address, slot) ==
    LET paid == charge_gas(Accessed(p, "tload", address, slot),
                           WARM_STORAGE_READ_COST)
    IN IF paid.res.tag # "Ok" THEN paid
       ELSE [res |-> Ok(AccountLoad(paid.p.transient, address, slot)),
             p |-> paid.p]

tstore(p, address, slot, value) ==
    LET paid == charge_gas(Accessed(p, "tstore", address, slot),
                           WARM_STORAGE_READ_COST)
    IN IF paid.res.tag # "Ok" THEN paid
       ELSE [res |-> Ok(Unit),
             p |-> [paid.p EXCEPT
                       !.transient = AccountStore(@, address, slot, value)]]

\* revm's gas::log_cost: LOG + LOGDATA * len + LOGTOPIC * n.
LOG == 375

LOGDATA == 8

LOGTOPIC == 375

log_cost(n, len) == LOG + LOGDATA * len + LOGTOPIC * n

\* A log is [topics |-> sequence of words, data |-> sequence of bytes].
emit_event(p, address, log) ==
    LET paid == charge_gas(p, log_cost(Len(log.topics), Len(log.data)))
    IN IF paid.res.tag # "Ok" THEN paid
       ELSE [res |-> Ok(Unit),
             p |-> [paid.p EXCEPT
                       !.logs = Append(@, [address |-> address, data |-> log])]]

deduct_gas(p, gas) == charge_gas(p, gas)

gas_used(p) == p.gas_limit - p.gas_remaining

gas_refunded(p) == p.gas_refunded

RevmStorageProvider_new(internals, gas_limit) ==
    [persistent |-> internals.persistent,
     transient |-> internals.transient,
     touched |-> internals.touched,
     logs |-> internals.logs,
     accesses |-> <<>>,
     gas_remaining |-> gas_limit,
     gas_refunded |-> I64(0),
     gas_limit |-> gas_limit]

(***************************************************************************)
(* runtime_storage_ops.rs: RuntimeStorageOps; runtime_context.rs           *)
(***************************************************************************)
RuntimeStorageOps_new(address, mode) == [address |-> address, mode |-> mode]

RuntimeStorageOps_load(ops, p, slot, gas_cost) ==
    IF ops.mode = "Persistent" THEN sload(p, ops.address, slot, gas_cost)
    ELSE tload(p, ops.address, slot)

\* Mutant: every store goes to persistent storage.
RuntimeStorageOps_store_persistent(ops, p, slot, value, gas_cost, refund) ==
    sstore(p, ops.address, slot, value, gas_cost, refund)

RuntimeStorageOps_store(ops, p, slot, value, gas_cost, refund) ==
    IF ops.mode = "Persistent"
    THEN sstore(p, ops.address, slot, value, gas_cost, refund)
    ELSE tstore(p, ops.address, slot, value)

RuntimeContext_new(address) == [address |-> address]

RuntimeContext_storage_ops(ctx) ==
    RuntimeStorageOps_new(ctx.address, "Persistent")

RuntimeContext_transient_ops(ctx) ==
    RuntimeStorageOps_new(ctx.address, "Transient")

(***************************************************************************)
(* A layout operation over RuntimeStorageOps.  The layout code is generic  *)
(* in its backend: its calls are those it makes on the backend the ops     *)
(* present, issued to the provider one by one until one of them fails.     *)
(***************************************************************************)
AmpleGas == 1000000

\* The words the ops' load returns, slot by slot.
BackendView(ops, p) ==
    LET slots == {k[2] : k \in (DOMAIN p.persistent) \cup (DOMAIN p.transient)}
        ample == [p EXCEPT !.gas_remaining = AmpleGas]
    IN [s \in slots |-> RuntimeStorageOps_load(ops, ample, s, 0).res.val]

\* Handler::read / write / delete of a handle over a map backend.
Handler_run(h, st, op, value) ==
    The1({[res |-> r.res, calls |-> r.calls]
          : r \in {CASE op = "read" -> Handler_read(h, st)
                     [] op = "write" /\ h.kind = "vec" ->
                            VecHandler_write(h, st, value)
                     [] op = "write" /\ h.kind # "vec" ->
                            Handler_write(h, st, value)
                     [] op = "delete" /\ h.kind = "vec" ->
                            VecHandler_delete(h, st)
                     [] op = "delete" /\ h.kind = "bytes" ->
                            Bytes_delete(h, st)
                     [] OTHER -> Slot_delete(h, st)}})

\* The backend calls of `trace` from the i-th on, made through ops.
RECURSIVE IssueCalls(_, _, _, _, _, _, _)
IssueCalls(ops, p, trace, i, load_cost, store_cost, refund) ==
    IF i > Len(trace) THEN [res |-> Ok(Unit), p |-> p]
    ELSE The1({IF r.res.tag # "Ok" THEN r
               ELSE IssueCalls(ops, r.p, trace, i + 1, load_cost, store_cost,
                               refund)
               : r \in {IF trace[i][1] = "load"
                        THEN RuntimeStorageOps_load(ops, p, trace[i][2],
                                                    load_cost)
                        ELSE RuntimeStorageOps_store(ops, p, trace[i][2],
                                                     trace[i][3], store_cost,
                                                     refund)}})

Runtime_run(ops, p, h, op, value, load_cost, store_cost, refund) ==
    The1({The1({[res |-> IF issued.res.tag = "Ok" THEN run.res ELSE issued.res,
                 p |-> issued.p]
                : issued \in {IssueCalls(ops, p, run.calls, 1, load_cost,
                                         store_cost, refund)}})
          : run \in {Handler_run(h, BackendView(ops, p), op, value)}})

(***************************************************************************)
(* RuntimeContext under test: layout handles of the contract at address A  *)
(* driven through storage_ops() and transient_ops(), over a provider that  *)
(* also holds storage of another address.                                  *)
(***************************************************************************)
ContractAddress == BeCount(20)

OtherAddress == BeOnes(20)

\* <<sload cost, sstore cost>> of a call: warm or cold.
AccessCosts == {<<100, 100>>, <<2100, 2900>>}

GasLimits == {250, 1200}

RuntimeHandles ==
    {Slot_new_with_ctx("u64", HandleSlot, packed(8)),
     Bytes_new("string", HandleSlot)}

RuntimeValues(h) ==
    IF h.kind = "bytes" THEN {AsciiBytes(40)} ELSE {BeCount(8)}

ProviderStorage ==
    [k \in {<<ContractAddress, HandleSlot>>, <<OtherAddress, HandleSlot>>} |->
        IF k[1] = ContractAddress THEN WordFromInt(6) ELSE PatternWord]

RuntimeInit ==
    /\ \E h \in RuntimeHandles :
          handle = [kind |-> "runtime", ctx |-> RuntimeContext_new(ContractAddress),
                    inner |-> h]
    /\ \E gas \in GasLimits :
          storage = [persistent |-> ProviderStorage,
                     transient |-> ProviderStorage,
                     gas_remaining |-> gas,
                     gas_refunded |-> I64(0),
                     touched |-> {},
                     accesses |-> <<>>]
    /\ pre = storage
    /\ calls = <<>>
    /\ last = NoOp
    /\ written = NothingWritten

\* One layout operation through ops; the provider's access log of it goes
\* to calls.
RuntimeOp(ops, mode) ==
    /\ handle.kind = "runtime"
    /\ \E op \in {"read", "write", "delete"},
          v \in RuntimeValues(handle.inner),
          cost \in AccessCosts :
          \E r \in {Runtime_run(ops, storage, handle.inner, op, v,
                                cost[1], cost[2], I64(0))} :
             /\ storage' = [r.p EXCEPT !.accesses = <<>>]
             /\ calls' = r.p.accesses
             /\ last' = [name |-> op, arg |-> [mode |-> mode, value |-> v],
                         res |-> r.res]
    /\ pre' = storage
    /\ UNCHANGED <<handle, written>>

RuntimePersistentOp ==
    /\ handle.kind = "runtime"
    /\ RuntimeOp(RuntimeContext_storage_ops(handle.ctx), "Persistent")

RuntimeTransientOp ==
    /\ handle.kind = "runtime"
    /\ RuntimeOp(RuntimeContext_transient_ops(handle.ctx), "Transient")

RuntimeNext == RuntimePersistentOp \/ RuntimeTransientOp

SpecRuntime == RuntimeInit /\ [][RuntimeNext]_vars

RuntimeAddress == handle.ctx.address

RuntimeActed == handle.kind = "runtime" /\ last.name \in {"read", "write", "delete"}

\* The storage of every address other than the contract's, in both maps.
OtherAccounts(p) ==
    [k \in {q \in DOMAIN p.persistent : q[1] # RuntimeAddress} |->
        <<p.persistent[k], p.transient[k]>>]

\* C20: through persistent ops every backend call is an sload or sstore at
\* the contract address and transient storage is unchanged; through
\* transient ops every call is a tload or tstore at the contract address and
\* persistent storage is unchanged; storage of other addresses is unchanged
\* either way.
C20_RuntimeRouting ==
    RuntimeActed =>
        /\ \A i \in 1..Len(calls) :
              /\ calls[i][2] = RuntimeAddress
              /\ calls[i][1] \in (IF last.arg.mode = "Persistent"
                                  THEN {"sload", "sstore"}
                                  ELSE {"tload", "tstore"})
        /\ last.arg.mode = "Persistent" => storage.transient = pre.transient
        /\ last.arg.mode = "Transient" => storage.persistent = pre.persistent
        /\ OtherAccounts(storage) = OtherAccounts(pre)

\* A transient write that went through and changed the transient storage of
\* the contract with more than one call.
C20_Witness ==
    /\ RuntimeActed
    /\ last.name = "write"
    /\ last.arg.mode = "Transient"
    /\ last.res.tag = "Ok"
    /\ Len(calls) > 1
    /\ storage.transient # pre.transient
    /\ storage.persistent # storage.transient

(***************************************************************************)
(* RevmStorageProvider under test: the provider operations called          *)
(* directly, with the costs revm computes given as inputs of the calls.    *)
(***************************************************************************)
SloadGasCosts == {100, 2100}

MaxLogs == 1

MaxRefundDrift == 4800

ProviderGasLimits == {250, 3000}

\* <<sstore cost, sstore refund>> of a call.
SstoreCosts == {<<100, I64(0)>>, <<2900, I64(MaxRefundDrift)>>}

DeductAmounts == {100, 5000}

RefundAmounts == {I64(0 - MaxRefundDrift), I64_MAX, I64_MIN}

ProviderWords == {OneWord}

ProviderLogs ==
    {[topics |-> <<>>, data |-> <<>>],
     [topics |-> <<OneWord>>, data |-> BeCount(32)]}

\* Within MaxRefundDrift of zero or of an i64 bound, in whole refund units.
NearRefund(x) ==
    \/ x[1] = 0 /\ x[2] = 0 /\ x[3] <= MaxRefundDrift
              /\ x[3] % MaxRefundDrift = 0
    \/ x[1] = -1 /\ x[2] = Limb - 1 /\ x[3] >= Limb - MaxRefundDrift
              /\ (Limb - x[3]) % MaxRefundDrift = 0
    \/ x[1] = 7 /\ x[2] = Limb - 1 /\ x[3] >= Limb - 1 - MaxRefundDrift
              /\ (Limb - 1 - x[3]) % MaxRefundDrift = 0
    \/ x[1] = -8 /\ x[2] = 0 /\ x[3] <= MaxRefundDrift
              /\ x[3] % MaxRefundDrift = 0

ProviderInit ==
    /\ handle = [kind |-> "provider", address |-> ContractAddress,
                 slot |-> HandleSlot]
    /\ \E gas_limit \in ProviderGasLimits :
          storage = RevmStorageProvider_new(
                        [persistent |-> ProviderStorage,
                         transient |-> ProviderStorage,
                         touched |-> {}, logs |-> <<>>], gas_limit)
    /\ pre = storage
    /\ calls = <<>>
    /\ last = NoOp
    /\ written = NothingWritten

\* The provider after a call: r is [res, p].
ProviderCalled(name, arg, r) ==
    /\ storage' = [r.p EXCEPT !.accesses = <<>>]
    /\ calls' = r.p.accesses
    /\ last' = [name |-> name, arg |-> arg, res |-> r.res]
    /\ pre' = storage
    /\ UNCHANGED <<handle, written>>

ProviderSload ==
    /\ handle.kind = "provider"
    /\ \E gas_cost \in SloadGasCosts :
          ProviderCalled("sload", [cost |-> gas_cost],
                         sload(storage, handle.address, handle.slot, gas_cost))

ProviderSstore ==
    /\ handle.kind = "provider"
    /\ \E value \in ProviderWords, cost \in SstoreCosts :
          /\ NearRefund(saturating_add(storage.gas_refunded, cost[2]))
          /\ ProviderCalled("sstore", [cost |-> cost[1], value |-> value],
                            sstore(storage, handle.address, handle.slot,
                                   value, cost[1], cost[2]))

ProviderTload ==
    /\ handle.kind = "provider"
    /\ ProviderCalled("tload", [cost |-> WARM_STORAGE_READ_COST],
                      tload(storage, handle.address, handle.slot))

ProviderTstore ==
    /\ handle.kind = "provider"
    /\ \E value \in ProviderWords :
          ProviderCalled("tstore",
                         [cost |-> WARM_STORAGE_READ_COST, value |-> value],
                         tstore(storage, handle.address, handle.slot, value))

ProviderEmitEvent ==
    /\ handle.kind = "provider"
    /\ Len(storage.logs) < MaxLogs
    /\ \E log \in ProviderLogs :
          ProviderCalled("emit_event",
                         [cost |-> log_cost(Len(log.topics), Len(log.data))],
                         emit_event(storage, handle.address, log))

ProviderDeductGas ==
    /\ handle.kind = "provider"
    /\ \E gas \in DeductAmounts :
          ProviderCalled("deduct_gas", [cost |-> gas],
                         deduct_gas(storage, gas))

ProviderRefundGas ==
    /\ handle.kind = "provider"
    /\ \E gas \in RefundAmounts :
          /\ NearRefund(saturating_add(storage.gas_refunded, gas))
          /\ ProviderCalled("refund_gas", [gas |-> gas],
                            [res |-> Ok(Unit), p |-> refund_gas(storage, gas)])

ProviderNext ==
    \/ ProviderSload
    \/ ProviderSstore
    \/ ProviderTload
    \/ ProviderTstore
    \/ ProviderEmitEvent
    \/ ProviderDeductGas
    \/ ProviderRefundGas

SpecProvider == ProviderInit /\ [][ProviderNext]_vars

ProviderActed == handle.kind = "provider" /\ last.name # "new"

MeteredCalls == {"sload", "sstore", "tload", "tstore", "emit_event", "deduct_gas"}

\* C21: a provider access whose cost exceeds the gas remaining returns
\* OutOfGas and has changed nothing: persistent and transient storage and
\* the log are as before and the remaining gas is unchanged.
C21_MeteringFailure ==
    (/\ ProviderActed
     /\ last.name \in MeteredCalls
     /\ pre.gas_remaining < last.arg.cost)
    => /\ last.res = Err("OutOfGas")
       /\ storage.persistent = pre.persistent
       /\ storage.transient = pre.transient
       /\ storage.logs = pre.logs
       /\ storage.gas_remaining = pre.gas_remaining

\* x <= y for i64 values.
I64_le(x, y) ==
    \/ x[1] < y[1]
    \/ x[1] = y[1] /\ x[2] < y[2]
    \/ x[1] = y[1] /\ x[2] = y[2] /\ x[3] <= y[3]

I64_InRange(x) == x[1] \in -8..7

\* C30: gas_remaining never exceeds gas_limit, gas_used is their difference
\* and never decreases; a charge above the gas remaining fails with OutOfGas
\* and keeps gas_remaining; refund_gas changes the refund counter only, to
\* the sum clamped to the i64 range.
C30_GasAccounting ==
    handle.kind = "provider" =>
        /\ storage.gas_remaining >= 0
        /\ storage.gas_remaining <= storage.gas_limit
        /\ gas_used(storage) + storage.gas_remaining = storage.gas_limit
        /\ storage.gas_limit = pre.gas_limit
        /\ gas_used(storage) >= gas_used(pre)
        /\ (last.name \in MeteredCalls /\ pre.gas_remaining < last.arg.cost)
              => /\ last.res = Err("OutOfGas")
                 /\ storage.gas_remaining = pre.gas_remaining
        /\ last.name = "refund_gas" =>
              LET sum == I64_sum(pre.gas_refunded, last.arg.gas)
              IN /\ storage = [pre EXCEPT !.gas_refunded = gas_refunded(storage)]
                 /\ I64_InRange(gas_refunded(storage))
                 /\ I64_InRange(sum) => gas_refunded(storage) = sum
                 /\ sum[1] > 7 => gas_refunded(storage) = I64_MAX
                 /\ sum[1] < -8 => gas_refunded(storage) = I64_MIN
        /\ last.name \notin {"refund_gas", "sstore"} =>
              gas_refunded(storage) = gas_refunded(pre)

\* A refund that saturates at the upper i64 bound, after gas has been used.
C30_Witness ==
    /\ ProviderActed
    /\ last.name = "refund_gas"
    /\ last.arg.gas = I64_MAX
    /\ gas_refunded(pre) = I64(MaxRefundDrift)
    /\ gas_refunded(storage) = I64_MAX
    /\ gas_used(storage) > 0

(***************************************************************************)
(* The layout operations over a backend whose calls can fail.  The backend *)
(* is [map, fail_at, count, calls]: its fail_at-th call returns an error   *)
(* and changes nothing, every other call acts on map; calls lists every    *)
(* call made on it, the failing one included.  Each operation returns the  *)
(* result and the backend afterwards; `?` is the early return on Err.      *)
(***************************************************************************)
FailingBackend(map, fail_at) ==
    [map |-> map, fail_at |-> fail_at, count |-> 0, calls |-> <<>>]

BackendFault == Err("RuntimeError")

\* StorageOps::load
FailingLoad(b, slot) ==
    LET made == [b EXCEPT !.count = @ + 1,
                          !.calls = Append(@, LoadCall(b.map, slot))]
    IN IF made.count = b.fail_at THEN [res |-> BackendFault, b |-> made]
       ELSE [res |-> Ok(Load(b.map, slot)), b |-> made]

\* StorageOps::store
FailingStore(b, slot, value) ==
    LET made == [b EXCEPT !.count = @ + 1,
                          !.calls = Append(@, StoreCall(slot, value))]
    IN IF made.count = b.fail_at THEN [res |-> BackendFault, b |-> made]
       ELSE [res |-> Ok(Unit),
             b |-> [made EXCEPT !.map = Store(@, slot, value)]]

\* layout.rs 132-144
Packable_store_fallible(ty, value, b, slot, ctx) ==
    LET off == packed_offset(ctx)
    IN IF ~off.some THEN FailingStore(b, slot, to_word(ty, value))
       ELSE The1({IF current.res.tag # "Ok" THEN current
                  ELSE The1({IF updated.tag # "Ok"
                             THEN [res |-> updated, b |-> current.b]
                             ELSE FailingStore(current.b, slot, updated.val)
                             : updated \in
                                  {insert_packed_value(ty, current.res.val,
                                                       value, off.v,
                                                       BYTES(ty))}})
                  : current \in {FailingLoad(b, slot)}})

\* for i in 0..count { storage.store(slot + i, ZERO)?; }
RECURSIVE ZeroSlots_fallible(_, _, _, _)
ZeroSlots_fallible(b, slot, count, offset) ==
    IF offset >= count THEN [res |-> Ok(Unit), b |-> b]
    ELSE The1({IF put.res.tag # "Ok" THEN put
               ELSE ZeroSlots_fallible(put.b, slot, count, offset + 1)
               : put \in {FailingStore(b, WordAddInt(slot, offset),
                                       ZeroWord)}})

\* layout.rs 93-108
Default_delete_fallible(ty, b, slot, ctx) ==
    LET off == packed_offset(ctx)
    IN IF ~off.some THEN ZeroSlots_fallible(b, slot, SLOTS(ty), 0)
       ELSE The1({IF current.res.tag # "Ok" THEN current
                  ELSE The1({IF cleared.tag # "Ok"
                             THEN [res |-> cleared, b |-> current.b]
                             ELSE FailingStore(current.b, slot, cleared.val)
                             : cleared \in
                                  {zero_packed_value(current.res.val, off.v,
                                                     BYTES(ty))}})
                  : current \in {FailingLoad(b, slot)}})

\* The loop of store_bytes_like from chunk i on.
RECURSIVE StoreChunks_fallible(_, _, _, _, _)
StoreChunks_fallible(bytes, b, slot_start, chunks, i) ==
    IF i >= chunks THEN [res |-> Ok(Unit), b |-> b]
    ELSE LET slot == WordAddInt(slot_start, i)
             chunk_start == i * 32
             chunk_end == IF chunk_start + 32 < Len(bytes)
                          THEN chunk_start + 32 ELSE Len(bytes)
             chunk == SubSeq(bytes, chunk_start + 1, chunk_end)
             chunk_bytes == Tup([k \in 1..WordBytes |->
                                IF k <= Len(chunk) THEN chunk[k] ELSE 0])
         IN The1({IF put.res.tag # "Ok" THEN put
                  ELSE StoreChunks_fallible(bytes, put.b, slot_start, chunks,
                                            i + 1)
                  : put \in {FailingStore(b, slot, chunk_bytes)}})

store_bytes_like_fallible(bytes, b, base_slot) ==
    LET length == Len(bytes)
    IN IF length <= 31
       THEN FailingStore(b, base_slot, encode_short_string(bytes))
       ELSE The1({IF head.res.tag # "Ok" THEN head
                  ELSE StoreChunks_fallible(bytes, head.b,
                                            calc_data_slot(base_slot),
                                            calc_chunks(length), 0)
                  : head \in {FailingStore(b, base_slot,
                                  encode_long_string_length(length))}})

delete_bytes_like_fallible(b, base_slot) ==
    The1({IF base_value.res.tag # "Ok" THEN base_value
          ELSE IF is_long_string(base_value.res.val)
          THEN The1({IF length.tag # "Ok"
                     THEN [res |-> length, b |-> base_value.b]
                     ELSE The1({IF zeroed.res.tag # "Ok" THEN zeroed
                                ELSE FailingStore(zeroed.b, base_slot, ZeroWord)
                                : zeroed \in
                                     {ZeroSlots_fallible(
                                          base_value.b,
                                          calc_data_slot(base_slot),
                                          calc_chunks(length.val), 0)}})
                     : length \in {calc_string_length(base_value.res.val,
                                                      TRUE)}})
          ELSE FailingStore(base_value.b, base_slot, ZeroWord)
          : base_value \in {FailingLoad(b, base_slot)}})

RECURSIVE T_store_fallible(_, _, _, _, _)
RECURSIVE T_delete_fallible(_, _, _, _)

\* array.rs 192-206
RECURSIVE store_packed_array_fallible(_, _, _, _, _, _)
store_packed_array_fallible(E, N, values, b, base_slot, index) ==
    IF index >= N THEN [res |-> Ok(Unit), b |-> b]
    ELSE LET loc == calc_element_loc(index, T_BYTES(E))
             slot == WordAddInt(base_slot, loc.offset_slots)
         IN The1({IF put.res.tag # "Ok" THEN put
                  ELSE store_packed_array_fallible(E, N, values, put.b,
                                                   base_slot, index + 1)
                  : put \in {T_store_fallible(E, values[index + 1], b, slot,
                                              packed(loc.offset_bytes))}})

\* array.rs 208-221
RECURSIVE store_unpacked_array_fallible(_, _, _, _, _, _)
store_unpacked_array_fallible(E, N, values, b, base_slot, index) ==
    IF index >= N THEN [res |-> Ok(Unit), b |-> b]
    ELSE LET slot == WordAddInt(base_slot, index * T_SLOTS(E))
         IN The1({IF put.res.tag # "Ok" THEN put
                  ELSE store_unpacked_array_fallible(E, N, values, put.b,
                                                     base_slot, index + 1)
                  : put \in {T_store_fallible(E, values[index + 1], b, slot,
                                              FULL)}})

\* for idx in 0..count { T::delete(storage, start + idx * T::SLOTS, FULL)?; }
RECURSIVE delete_elements_fallible(_, _, _, _, _)
delete_elements_fallible(E, b, start, count, idx) ==
    IF idx >= count THEN [res |-> Ok(Unit), b |-> b]
    ELSE LET slot == WordAddInt(start, idx * T_SLOTS(E))
         IN The1({IF gone.res.tag # "Ok" THEN gone
                  ELSE delete_elements_fallible(E, gone.b, start, count,
                                                idx + 1)
                  : gone \in {T_delete_fallible(E, b, slot, FULL)}})

Array_store_fallible(T, values, b, base_slot) ==
    IF T_BYTES(ElemType(T)) <= 16
    THEN store_packed_array_fallible(ElemType(T), ArrayLen(T), values, b,
                                     base_slot, 0)
    ELSE store_unpacked_array_fallible(ElemType(T), ArrayLen(T), values, b,
                                       base_slot, 0)

Array_delete_fallible(T, b, base_slot) ==
    IF T_BYTES(ElemType(T)) <= 16
    THEN ZeroSlots_fallible(b, base_slot,
                            calc_packed_slot_count(ArrayLen(T),
                                                   T_BYTES(ElemType(T))), 0)
    ELSE delete_elements_fallible(ElemType(T), b, base_slot, ArrayLen(T), 0)

T_store_fallible(T, value, b, slot, ctx) ==
    IF IsArray(T) THEN Array_store_fallible(T, value, b, slot)
    ELSE IF T.base \in DynTypes THEN store_bytes_like_fallible(value, b, slot)
    ELSE Packable_store_fallible(T.base, value, b, slot, ctx)

T_delete_fallible(T, b, slot, ctx) ==
    IF IsArray(T) THEN Array_delete_fallible(T, b, slot)
    ELSE IF T.base \in DynTypes THEN delete_bytes_like_fallible(b, slot)
    ELSE Default_delete_fallible(T.base, b, slot, ctx)

\* vec.rs 223-244
RECURSIVE store_packed_elements_fallible(_, _, _, _, _, _)
store_packed_elements_fallible(E, elements, b, data_start, byte_count, slot_idx) ==
    IF slot_idx >= calc_packed_slot_count(Len(elements), byte_count)
    THEN [res |-> Ok(Unit), b |-> b]
    ELSE LET start_elem == slot_idx * (32 \div byte_count)
             end_elem == Min(start_elem + (32 \div byte_count), Len(elements))
             slot == WordAddInt(data_start, slot_idx)
         IN The1({IF slot_value.tag # "Ok" THEN [res |-> slot_value, b |-> b]
                  ELSE The1({IF put.res.tag # "Ok" THEN put
                             ELSE store_packed_elements_fallible(
                                      E, elements, put.b, data_start,
                                      byte_count, slot_idx + 1)
                             : put \in {FailingStore(b, slot, slot_value.val)}})
                  : slot_value \in
                       {build_packed_slot(
                            E, SubSeq(elements, start_elem + 1, end_elem),
                            byte_count, 1, PackedSlot(ZeroWord), 0)}})

\* vec.rs 281-296
RECURSIVE store_unpacked_elements_fallible(_, _, _, _, _)
store_unpacked_elements_fallible(E, elements, b, data_start, index) ==
    IF index >= Len(elements) THEN [res |-> Ok(Unit), b |-> b]
    ELSE LET slot == WordAddInt(data_start, index * T_SLOTS(E))
         IN The1({IF put.res.tag # "Ok" THEN put
                  ELSE store_unpacked_elements_fallible(E, elements, put.b,
                                                        data_start, index + 1)
                  : put \in {T_store_fallible(E, elements[index + 1], b, slot,
                                              FULL)}})

\* Mutant: a write that fails on a data slot puts the old length back.
Vec_store_rollback(E, value, b, len_slot) ==
    The1({IF first.res.tag # "Ok" \/ Len(value) = 0 THEN first
          ELSE The1({IF done.res.tag = "Ok" THEN done
                     ELSE [res |-> done.res,
                           b |-> [done.b EXCEPT
                                     !.map = Store(@, len_slot,
                                                   Load(b.map, len_slot))]]
                     : done \in
                        {IF T_BYTES(E) <= 16
                         THEN store_packed_elements_fallible(
                                  E, value, first.b,
                                  vec_calc_data_slot(len_slot), T_BYTES(E), 0)
                         ELSE store_unpacked_elements_fallible(
                                  E, value, first.b,
                                  vec_calc_data_slot(len_slot), 0)}})
          : first \in {FailingStore(b, len_slot, WordFromInt(Len(value)))}})

\* vec.rs 47-62
Vec_store_fallible(E, value, b, len_slot) ==
    The1({IF first.res.tag # "Ok" \/ Len(value) = 0 THEN first
          ELSE IF T_BYTES(E) <= 16
          THEN store_packed_elements_fallible(E, value, first.b,
                                              vec_calc_data_slot(len_slot),
                                              T_BYTES(E), 0)
          ELSE store_unpacked_elements_fallible(E, value, first.b,
                                                vec_calc_data_slot(len_slot),
                                                0)
          : first \in {FailingStore(b, len_slot, WordFromInt(Len(value)))}})

\* vec.rs 64-90
Vec_delete_fallible(E, b, len_slot) ==
    The1({IF length_value.res.tag # "Ok" THEN length_value
          ELSE IF ~FitsUsize(length_value.res.val)
          THEN [res |-> Panic("usize overflow"), b |-> length_value.b]
          ELSE The1({IF zeroed.res.tag # "Ok"
                        \/ WordLow24(length_value.res.val) = 0
                     THEN zeroed
                     ELSE IF T_BYTES(E) <= 16
                     THEN ZeroSlots_fallible(
                              zeroed.b, vec_calc_data_slot(len_slot),
                              calc_packed_slot_count(
                                  WordLow24(length_value.res.val), T_BYTES(E)),
                              0)
                     ELSE delete_elements_fallible(
                              E, zeroed.b, vec_calc_data_slot(len_slot),
                              WordLow24(length_value.res.val), 0)
                     : zeroed \in {FailingStore(length_value.b, len_slot,
                                                ZeroWord)}})
          : length_value \in {FailingLoad(b, len_slot)}})

(***************************************************************************)
(* Whole-value writes and deletes under test over a failing backend.       *)
(***************************************************************************)
MaxFailAt == 6

FailHandles ==
    {VecHandler_new(Ty("u64"), HandleSlot),
     VecHandler_new(Ty("u256"), HandleSlot),
     VecHandler_new(Ty("string"), HandleSlot),
     Bytes_new("string", HandleSlot),
     ArrayHandler_new(Ty("u64"), 5, HandleSlot),
     ArrayHandler_new(Ty("u256"), 2, HandleSlot)}

\* The type whose Storable impl the handle's write and delete go to.
HandleType(h) ==
    CASE h.kind = "vec" -> [base |-> "vec", elem |-> h.ty]
      [] h.kind = "array" -> ArrayOf(h.ty, h.n)
      [] OTHER -> Ty(h.ty)

FailValues(h) ==
    CASE h.kind = "vec" ->
            {SubSeq(<<SampleValue(h.ty, 1), SampleValue(h.ty, 8),
                      SampleValue(h.ty, 1), SampleValue(h.ty, 8),
                      SampleValue(h.ty, 1)>>, 1, n) : n \in {0, 2, 5}}
      [] h.kind = "array" -> {SampleValue(ArrayOf(h.ty, h.n), 1)}
      [] OTHER -> {AsciiBytes(5), AsciiBytes(40), AsciiBytes(66)}

\* Handler::write / delete of h over the failing backend b.
Handler_run_fallible(h, b, op, value) ==
    CASE h.kind = "vec" /\ op = "write" ->
            Vec_store_fallible(h.ty, value, b, h.slot)
      [] h.kind = "vec" /\ op = "delete" ->
            Vec_delete_fallible(h.ty, b, h.slot)
      [] h.kind # "vec" /\ op = "write" ->
            T_store_fallible(HandleType(h), value, b, h.slot, FULL)
      [] OTHER -> T_delete_fallible(HandleType(h), b, h.slot, FULL)

\* The same operation over the in-memory backend: [res, st, calls].
Handler_run_infallible(h, st, op, value) ==
    CASE h.kind = "vec" /\ op = "write" ->
            Vec_store(h.ty, value, st, h.slot, FULL)
      [] h.kind = "vec" /\ op = "delete" -> Vec_delete(h.ty, st, h.slot, FULL)
      [] h.kind # "vec" /\ op = "write" ->
            T_store(HandleType(h), value, st, h.slot, FULL)
      [] OTHER -> T_delete(HandleType(h), st, h.slot, FULL)

FailInit ==
    /\ handle \in FailHandles
    /\ storage = EmptyStorage
    /\ pre = storage
    /\ calls = <<>>
    /\ last = NoOp
    /\ written = NothingWritten

\* An operation whose fail_at-th backend call fails (0: none does).  A run
\* is one write, one delete, or a write followed by a delete.
FailOp(op, value, fail_at) ==
    \E r \in {Handler_run_fallible(handle, FailingBackend(storage, fail_at),
                                   op, value)} :
       /\ storage' = r.b.map
       /\ calls' = r.b.calls
       /\ last' = [name |-> op, arg |-> [value |-> value, fail_at |-> fail_at],
                   res |-> r.res]
       /\ pre' = storage
       /\ written' = [state |-> IF op = "write" THEN "value" ELSE "deleted",
                      val |-> value]
       /\ UNCHANGED handle

FailWrite ==
    /\ handle \in FailHandles
    /\ written.state = "none"
    /\ \E value \in FailValues(handle), fail_at \in 0..MaxFailAt :
          FailOp("write", value, fail_at)

FailDelete ==
    /\ handle \in FailHandles
    /\ written.state # "deleted"
    /\ \E fail_at \in 0..MaxFailAt : FailOp("delete", Unit, fail_at)

FailNext == FailWrite \/ FailDelete

SpecFail == FailInit /\ [][FailNext]_vars

\* The backend after the stores among the calls of trace.
RECURSIVE ApplyStores(_, _, _)
ApplyStores(st, trace, i) ==
    IF i > Len(trace) THEN st
    ELSE ApplyStores(IF trace[i][1] = "store"
                     THEN Store(st, trace[i][2], trace[i][3]) ELSE st,
                     trace, i + 1)

FailActed == handle \in FailHandles /\ last.name \in {"write", "delete"}

\* C22: when the j-th backend call of a whole-value write or delete fails,
\* the operation returns that error, its calls are exactly the first j calls
\* of the undisturbed operation (none after the failing one, none repeated)
\* and the backend holds the effects of the first j-1; when no call fails
\* the operation is the undisturbed one.
C22_NoRollbackNoRetry ==
    FailActed =>
        \E ideal \in {Handler_run_infallible(handle, pre, last.name,
                                             last.arg.value)} :
           IF last.arg.fail_at \in 1..Len(ideal.calls)
           THEN /\ last.res = BackendFault
                /\ calls = SubSeq(ideal.calls, 1, last.arg.fail_at)
                /\ storage = ApplyStores(pre, SubSeq(ideal.calls, 1,
                                                    last.arg.fail_at - 1), 1)
           ELSE /\ last.res = ideal.res
                /\ calls = ideal.calls
                /\ storage = ideal.st

\* A vector write that failed on its third call: len_slot holds the new
\* length and the first data slot the new elements.
C22_Witness ==
    /\ FailActed
    /\ handle.kind = "vec"
    /\ last.name = "write"
    /\ last.arg.fail_at = 3
    /\ last.res = BackendFault
    /\ Len(calls) = 3
    /\ Load(storage, handle.slot) = WordFromInt(Len(last.arg.value))
    /\ Load(storage, VecHandler_data_slot(handle)) # ZeroWord
    /\ Load(storage, WordAddInt(VecHandler_data_slot(handle), 1)) = ZeroWord

\* C23: a whole write of n elements of a packed type makes no load and
\* exactly 1 + ceil(n * BYTES / 32) stores: the length to len_slot, then the
\* data slots in ascending order, each word holding its elements in place
\* and zero everywhere else, whatever the backend held.
C23_PackedVecWriteCalls ==
    (handle.kind = "vec" /\ last.name = "write" /\ T_BYTES(handle.ty) <= 16) =>
        \E v \in {last.arg}, data_base \in {keccak256(handle.slot)} :
           LET n == Len(v)
               b == T_BYTES(handle.ty)
               words == (n * b + 31) \div 32
           IN /\ last.res = Ok(Unit)
              /\ Len(calls) = 1 + words
              /\ \A c \in 1..Len(calls) : calls[c][1] = "store"
              /\ calls[1] = StoreCall(handle.slot, WordFromInt(n))
              /\ \A k \in 0..(words - 1) :
                    /\ calls[k + 2][2] = WordAddInt(data_base, k)
                    /\ \A p \in 1..WordBytes :
                          ~Covered(k, p, n, b) => calls[k + 2][3][p] = 0
              /\ \A i \in 0..(n - 1) :
                    ElementBytes(calls[((i * b) \div 32) + 2][3], i, b)
                       = ValueBytes(handle.ty, v[i + 1])

\* A write of five u64 over a backend whose data slots held other words:
\* three stores, the second data word zero above its one element.
C23_Witness ==
    /\ handle.kind = "vec"
    /\ handle.ty = Ty("u64")
    /\ last.name = "write"
    /\ Len(last.arg) = 5
    /\ Len(calls) = 3
    /\ Load(pre, WordAddInt(keccak256(handle.slot), 1)) # ZeroWord
    /\ SubSeq(Load(storage, WordAddInt(keccak256(handle.slot), 1)), 1, 24)
          = SubSeq(ZeroWord, 1, 24)

(***************************************************************************)
(* Arrays and vectors of every primitive type that is laid out packed:     *)
(* element handles up to index MaxLocLen, where the one-byte types have    *)
(* passed a word boundary, and whole values of MaxLocWhole elements, where *)
(* the types of two bytes and more have.                                   *)
(***************************************************************************)
MaxLocLen == 34

MaxLocWhole == 18

PackedElemTypes ==
    {Ty(ty) : ty \in {t \in PrimTypes : BYTES(t) <= 16}}

LocInit ==
    /\ \E E \in PackedElemTypes :
          \/ handle = ArrayHandler_new(E, MaxLocWhole, HandleSlot)
          \/ handle = VecHandler_new(E, HandleSlot)
    /\ storage \in {EmptyStorage, PriorBackend}
    /\ pre = storage
    /\ calls = <<>>
    /\ last = NoOp
    /\ written = NothingWritten

\* ArrayHandler::at(index) / VecHandler::at_unchecked(index)
LocAt ==
    /\ written.state = "none"
    /\ \E index \in 0..MaxLocLen :
          last' = [name |-> "at", arg |-> index,
                   res |-> IF handle.kind = "array"
                           THEN Ok(ArrayHandler_at(handle, index))
                           ELSE Ok(Some(VecHandler_at_unchecked(handle, index)))]
    /\ calls' = <<>>
    /\ pre' = storage
    /\ UNCHANGED <<handle, storage, written>>

\* Handler::write of MaxLocWhole elements, as the first operation
LocWrite ==
    /\ last = NoOp
    /\ \E v \in {SampleValue(ArrayOf(handle.ty, MaxLocWhole), seed) : seed \in {1, 8}} :
          \E r \in {IF handle.kind = "array"
                    THEN ArrayHandler_write(handle, storage, v)
                    ELSE VecHandler_write(handle, storage, v)} :
             /\ storage' = r.st
             /\ calls' = r.calls
             /\ last' = [name |-> "write", arg |-> v, res |-> r.res]
             /\ written' = [state |-> "value", val |-> v]
    /\ pre' = storage
    /\ UNCHANGED handle

\* Handler::read of the initial backend or of what was written
LocRead ==
    /\ last.name # "at"
    /\ \E r \in {IF handle.kind = "array"
                 THEN ArrayHandler_read(handle, storage)
                 ELSE VecHandler_read(handle, storage)} :
          /\ calls' = r.calls
          /\ last' = [name |-> "read", arg |-> Unit, res |-> r.res]
    /\ pre' = storage
    /\ UNCHANGED <<handle, storage, written>>

LocNext == LocAt \/ LocWrite \/ LocRead

SpecLoc == LocInit /\ [][LocNext]_vars

\* C24: for every element type with BYTES <= 16 and every index, the
\* location of the element ends inside its word: the element handles of
\* arrays and vectors have offset + BYTES <= 32, whole writes and reads
\* never return PackedSlotOverflow, and a whole read after a whole write
\* returns every element as written.
C24_PackedLocationsInWord ==
    handle.ty \in PackedElemTypes =>
        /\ \A i \in 0..MaxLocLen :
              calc_element_loc(i, T_BYTES(handle.ty)).offset_bytes
                 + T_BYTES(handle.ty) <= 32
        /\ (last.name = "at" /\ last.res.val.some) =>
              /\ packed_offset(last.res.val.v.ctx).some
              /\ packed_offset(last.res.val.v.ctx).v + T_BYTES(handle.ty) <= 32
        /\ last.name \in {"write", "read"} =>
              last.res # Err("PackedSlotOverflow")
        /\ last.name = "write" => last.res = Ok(Unit)
        /\ (last.name = "read" /\ written.state = "value") =>
              last.res = Ok(written.val)

\* An element handle past the first word of a vector of u16, and a whole
\* read of an array of i16 after its write.
C24_Witness ==
    \/ /\ handle = VecHandler_new(Ty("u16"), HandleSlot)
       /\ last.name = "at"
       /\ last.arg = 31
       /\ last.res.val.v.ctx = packed(30)
       /\ last.res.val.v.slot = WordAddInt(keccak256(HandleSlot), 1)
    \/ /\ handle.kind = "array"
       /\ handle.ty = Ty("i16")
       /\ last.name = "read"
       /\ written.state = "value"
       /\ Len(last.res.val) = MaxLocWhole

(***************************************************************************)
(* Every kind of handle under test together, over empty backends and       *)
(* backends with prior contents, some of which do not decode.              *)
(***************************************************************************)
ReadHandles ==
    {Slot_new_with_ctx("u64", HandleSlot, packed(8)),
     Slot_new("bool", HandleSlot),
     Slot_new("i128", HandleSlot),
     Bytes_new("string", HandleSlot),
     Bytes_new("bytes", HandleSlot),
     ArrayHandler_new(Ty("u64"), 5, HandleSlot),
     ArrayHandler_new(Ty("bool"), 3, HandleSlot),
     ArrayHandler_new(Ty("string"), 2, HandleSlot),
     VecHandler_new(Ty("u64"), HandleSlot),
     VecHandler_new(Ty("bool"), HandleSlot),
     VecHandler_new(Ty("string"), HandleSlot)}

ReadInit ==
    /\ handle \in ReadHandles
    /\ storage \in VecBackends \cup {PriorBackend}
    /\ pre = storage
    /\ calls = <<>>
    /\ last = NoOp
    /\ written = NothingWritten

ReadNext == SlotNext \/ BytesNext \/ ArrayNext \/ VecNext

SpecRead == ReadInit /\ [][ReadNext]_vars

ReadNames == {"read", "len", "is_empty", "at", "at_unchecked"}

\* C25: a read (read of a slot, array, vector or byte string, len, is_empty,
\* at) makes only backend loads, whether it succeeds or fails, and the
\* backend afterwards is the backend before.
C25_ReadsDoNotMutate ==
    (handle \in ReadHandles /\ last.name \in ReadNames) =>
        /\ \A c \in 1..Len(calls) : calls[c][1] = "load"
        /\ storage = pre

\* A whole read of a vector that made several loads and failed.
C25_Witness ==
    /\ handle.kind = "vec"
    /\ last.name = "read"
    /\ last.res.tag = "Err"
    /\ Len(calls) > 1
    /\ storage # EmptyStorage

(***************************************************************************)
(* Whole values written several times through the same handle, longer and  *)
(* shorter ones in any order, over empty backends and backends with prior  *)
(* contents, and read back.                                                *)
(***************************************************************************)
MaxWrites == 3

RewriteHandles ==
    {VecHandler_new(Ty("u64"), HandleSlot),
     VecHandler_new(Ty("u256"), HandleSlot),
     VecHandler_new(Ty("string"), HandleSlot),
     Bytes_new("string", HandleSlot),
     ArrayHandler_new(Ty("u64"), 5, HandleSlot),
     ArrayHandler_new(Ty("string"), 2, HandleSlot)}

RewriteValues(h) ==
    CASE h.kind = "vec" ->
            {SampleValue(ArrayOf(h.ty, n), n + 1) : n \in {0, 1, 3, 5}}
      [] h.kind = "array" ->
            {SampleValue(ArrayOf(h.ty, h.n), seed) : seed \in {1, 2, 8}}
      [] OTHER -> {AsciiBytes(n) : n \in {0, 5, 31, 32, 40, 66}}

WriteCount == IF written.state = "none" THEN 0 ELSE written.n

RewriteInit ==
    /\ handle \in RewriteHandles
    /\ storage \in {EmptyStorage, PriorBackend}
    /\ pre = storage
    /\ calls = <<>>
    /\ last = NoOp
    /\ written = NothingWritten

\* Handler::write
Rewrite ==
    /\ written.state # "deleted"
    /\ WriteCount < MaxWrites
    /\ \E v \in RewriteValues(handle) :
          \E r \in {Handler_run_infallible(handle, storage, "write", v)} :
             /\ storage' = r.st
             /\ calls' = r.calls
             /\ last' = [name |-> "write", arg |-> v, res |-> r.res]
             /\ written' = [state |-> "value", val |-> v, n |-> WriteCount + 1]
    /\ pre' = storage
    /\ UNCHANGED handle

\* Handler::read
RewriteRead ==
    /\ last.name = "write"
    /\ \E r \in {CASE handle.kind = "vec" -> VecHandler_read(handle, storage)
                   [] handle.kind = "array" -> ArrayHandler_read(handle, storage)
                   [] OTHER -> Bytes_read(handle, storage)} :
          /\ calls' = r.calls
          /\ last' = [name |-> "read", arg |-> Unit, res |-> r.res]
    /\ pre' = storage
    /\ UNCHANGED <<handle, storage, written>>

\* Handler::delete, which ends the run
RewriteDelete ==
    /\ written.state # "deleted"
    /\ \E r \in {Handler_run_infallible(handle, storage, "delete", Unit)} :
          /\ storage' = r.st
          /\ calls' = r.calls
          /\ last' = [name |-> "delete", arg |-> Unit, res |-> r.res]
          /\ written' = [state |-> "deleted", val |-> Unit, n |-> WriteCount]
    /\ pre' = storage
    /\ UNCHANGED handle

RewriteNext == Rewrite \/ RewriteRead \/ RewriteDelete

SpecRewrite == RewriteInit /\ [][RewriteNext]_vars

\* C26: after whole-value writes through the same handle, whatever their
\* lengths and whatever the backend held, every write succeeds and a whole
\* read returns the value written last.
C26_LastWriteWins ==
    handle \in RewriteHandles =>
        /\ last.name = "write" => last.res = Ok(Unit)
        /\ last.name = "read" => last.res = Ok(written.val)

\* A read of a one-element vector of u64 written over a longer one, whose
\* second data word is still there.
C26_Witness ==
    /\ handle = VecHandler_new(Ty("u64"), HandleSlot)
    /\ last.name = "read"
    /\ written.n >= 2
    /\ Len(written.val) = 1
    /\ Load(storage, WordAddInt(keccak256(HandleSlot), 1)) # ZeroWord
    /\ last.res = Ok(written.val)

MaxDataSlots == 6

\* The data area of a vector or byte-string handle: keccak256(slot) + k.
DataAreaSlot(h, k) == WordAddInt(keccak256(h.slot), k)

\* The number of data-area slots a whole value of the handle takes.
ValueDataSlots(h, v) ==
    IF h.kind = "vec"
    THEN (IF T_BYTES(h.ty) <= 16 THEN (Len(v) * T_BYTES(h.ty) + 31) \div 32
          ELSE Len(v) * T_SLOTS(h.ty))
    ELSE IF Len(v) >= 32 THEN (Len(v) + 31) \div 32 ELSE 0

\* The number of data-area slots the length stored in st implies.
LiveDataSlots(h, st) ==
    IF h.kind = "vec"
    THEN (IF T_BYTES(h.ty) <= 16
          THEN (WordLow24(Load(st, h.slot)) * T_BYTES(h.ty) + 31) \div 32
          ELSE WordLow24(Load(st, h.slot)) * T_SLOTS(h.ty))
    ELSE IF Load(st, h.slot)[WordBytes] % 2 = 1
         THEN (((WordLow24(Load(st, h.slot)) - 1) \div 2) + 31) \div 32
         ELSE 0

\* C27: a whole write of a vector or byte string leaves every data-area slot
\* past the new value's last data slot as it was, and a delete leaves every
\* data-area slot past those of the length stored at that moment as it was
\* and zeroes the ones before.
C27_NoScrubbing ==
    (handle \in RewriteHandles /\ handle.kind \in {"vec", "bytes"}) =>
        /\ last.name = "write" =>
              \A k \in ValueDataSlots(handle, last.arg)..MaxDataSlots :
                 Load(storage, DataAreaSlot(handle, k))
                    = Load(pre, DataAreaSlot(handle, k))
        /\ (last.name = "delete" /\ last.res = Ok(Unit)) =>
              /\ \A k \in LiveDataSlots(handle, pre)..MaxDataSlots :
                    Load(storage, DataAreaSlot(handle, k))
                       = Load(pre, DataAreaSlot(handle, k))
              /\ \A k \in 0..(LiveDataSlots(handle, pre) - 1) :
                    Load(storage, DataAreaSlot(handle, k)) = ZeroWord
              /\ Load(storage, handle.slot) = ZeroWord

\* A vector of U256 deleted after a write of one element over five: data
\* slots of the longer value are still there.
C27_Witness ==
    /\ handle = VecHandler_new(Ty("u256"), HandleSlot)
    /\ last.name = "delete"
    /\ last.res = Ok(Unit)
    /\ written.n = 2
    /\ LiveDataSlots(handle, pre) = 1
    /\ Load(storage, DataAreaSlot(handle, 0)) = ZeroWord
    /\ Load(storage, DataAreaSlot(handle, 4)) # ZeroWord

\* Byte p (1 = most significant) of word k of a packed array or vector of n
\* elements of b bytes is covered by no element.
Uncovered(k, p, n, b) == ~Covered(k, p, n, b)

\* C28: a whole write of a packed array loads and stores the word of each
\* element in turn and leaves the bytes of its last slot that no element
\* covers as they were; a whole write of a packed vector makes no load and
\* leaves the uncovered bytes of its last data slot zero.
C28_ArrayMergesVecOverwrites ==
    (handle \in RewriteHandles /\ last.name = "write"
        /\ handle.kind \in {"array", "vec"} /\ T_BYTES(handle.ty) <= 16
        /\ Len(last.arg) > 0) =>
        \E n \in {Len(last.arg)}, b \in {T_BYTES(handle.ty)} :
           \E k \in {((n * b + 31) \div 32) - 1} :
              IF handle.kind = "array"
              THEN /\ Len(calls) = 2 * n
                   /\ \A i \in 1..n :
                         /\ calls[2 * i - 1][1] = "load"
                         /\ calls[2 * i][1] = "store"
                         /\ calls[2 * i][2] = calls[2 * i - 1][2]
                   /\ \A p \in 1..WordBytes :
                         Uncovered(k, p, n, b) =>
                            Load(storage, WordAddInt(handle.slot, k))[p]
                               = Load(pre, WordAddInt(handle.slot, k))[p]
              ELSE /\ \A c \in 1..Len(calls) : calls[c][1] = "store"
                   /\ \A p \in 1..WordBytes :
                         Uncovered(k, p, n, b) =>
                            Load(storage, DataAreaSlot(handle, k))[p] = 0

\* [u64; 5] written over a backend whose second slot was non-zero in its
\* upper 24 bytes: they are still there.
C28_Witness ==
    /\ handle = ArrayHandler_new(Ty("u64"), 5, HandleSlot)
    /\ last.name = "write"
    /\ last.res = Ok(Unit)
    /\ SubSeq(Load(pre, WordAddInt(HandleSlot, 1)), 1, 24)
          # SubSeq(ZeroWord, 1, 24)
    /\ SubSeq(Load(storage, WordAddInt(HandleSlot, 1)), 1, 24)
          = SubSeq(Load(pre, WordAddInt(HandleSlot, 1)), 1, 24)
    /\ SubSeq(Load(storage, WordAddInt(HandleSlot, 1)), 25, 32)
          = last.arg[5]

\* A one-element vector of u64 written over a longer one: the upper 24
\* bytes of its data word, non-zero before, are zero.
C28_VecCase ==
    /\ handle = VecHandler_new(Ty("u64"), HandleSlot)
    /\ last.name = "write"
    /\ Len(last.arg) = 1
    /\ SubSeq(Load(pre, DataAreaSlot(handle, 0)), 1, 24) # SubSeq(ZeroWord, 1, 24)
    /\ SubSeq(Load(storage, DataAreaSlot(handle, 0)), 1, 24)
          = SubSeq(ZeroWord, 1, 24)

\* The same mapping with keys of type kty.
Rekeyed(m, kty) == Mapping_new(kty, m.vty, m.slot)

\* C29: the entry of an address key a and the entry of the U256 key whose
\* value is a are at the same slot of mappings with the same base: at(a) of
\* Mapping<Address, V> is at(U256 of a) of Mapping<U256, V>, and at(k) of
\* Mapping<U256, V> for k below 2^160 is at(address of k) of
\* Mapping<Address, V>.
C29_KeyPadding ==
    (handle.kind = "mapping" /\ last.name = "at") =>
        /\ handle.kty = "address" =>
              /\ last.res.val =
                    Mapping_at(Rekeyed(handle, "u256"), ZeroExtend(last.arg.key))
              /\ mapping_slot("address", last.arg.key, handle.slot)
                    = mapping_slot("u256", ZeroExtend(last.arg.key), handle.slot)
        /\ (handle.kty = "u256"
              /\ SubSeq(last.arg.key, 1, 12) = SubSeq(ZeroWord, 1, 12)) =>
              last.res.val =
                 Mapping_at(Rekeyed(handle, "address"),
                            SubSeq(last.arg.key, 13, 32))

\* The entry of a non-zero address key in a mapping at a non-zero base.
C29_Witness ==
    /\ handle.kind = "mapping"
    /\ handle.kty = "address"
    /\ handle.slot # ZeroWord
    /\ last.name = "at"
    /\ last.arg.key = BeCount(20)
    /\ last.res.val.slot
          = mapping_slot("u256", ZeroExtend(BeCount(20)), handle.slot)
    /\ last.res.val.slot # mapping_slot("u256", ZeroWord, handle.slot)

====
